---- MODULE Spec2Model ----
(***************************************************************************)
(* go-monitoring: provider adapters (response validators), generic API     *)
(* client, provider registry, endpoint store and scheduler.                *)
(*                                                                         *)
(* Six specifications share the definitions of the adapters and the        *)
(* client:                                                                 *)
(*   SpecHandlers  one endpoint record, APIClient.CheckAPI applied to      *)
(*                 every decoded response of a bounded response space;     *)
(*   Spec          the endpoint store behind its mutex, the scheduler      *)
(*                 (MonitorAPIs / checkAllEndpoints), the HTTP check       *)
(*                 handler and ProviderRegistry.CheckProvider, stepped     *)
(*                 request by request.                                     *)
(*   SpecFair      Spec under the scheduling of the program (fairness of   *)
(*                 the scheduler and of a running check), from a smaller   *)
(*                 set of stores, for the liveness properties;             *)
(*   SpecOnChain   QueryOnChainPrice: router lookup, RPC dial, the         *)
(*                 contract call and its reply;                            *)
(*   SpecDashboard DashboardHandler's comparison of the return amount with *)
(*                 the market price of one row;                            *)
(*   SpecClients   getClient: concurrent callers of the RPC client cache   *)
(*                 behind its read-write mutex.                            *)
(*                                                                         *)
(* Abstractions: a response body is modelled by the fields json.Unmarshal  *)
(* decodes from it; strings.Contains / strings.EqualFold are tables over   *)
(* the finite alphabets; time.Now() is the value "now" (zero time is       *)
(* "never"); free-text messages are records holding the format (kind)      *)
(* and its arguments; the e-mail notification of handleError is left out.  *)
(***************************************************************************)
EXTENDS Integers, Sequences, FiniteSets, TLC

VARIABLES
    ep,          \* SpecHandlers: the endpoint record under validation
    resp,        \* the outcome of the last request (NoResp when there is none)
    checks,      \* SpecHandlers: number of CheckAPI calls made on ep
    requests,    \* SpecHandlers: HTTP requests sent by the last CheckAPI call
    oc,          \* SpecOnChain: the QueryOnChainPrice call and its RPC calls
    dash,        \* SpecDashboard: one solver row of the dashboard table
    gc,          \* SpecClients: the RPC-client cache, its lock and its callers
    endpoints,   \* collector.endpoints: the store, a sequence of records
    mu,          \* collector.mu: "free" or the process holding it
    env,         \* environment: the API-key variables that are set
    pc,          \* control point of every process
    snapshot,    \* scheduler: names of the copy taken by GetEndpointsCopy
    cycleLog,    \* scheduler: names checked so far in the running cycle
    idx,         \* scheduler: position in the walk over snapshot
    request,     \* web handler: the HTTP request being served
    reply,       \* web handler: status code written to the last request
    chk,         \* the CheckProvider call running inside the lock
    tempEndpoint,\* checkWithGenericClientForMarketPrice: the scratch copy
    inflight,    \* outbound HTTP request in flight ("none" when idle)
    reqLog       \* requests sent and answered in the running CheckProvider call

hvars == <<ep, checks, requests>>
ovars == <<oc, dash, gc>>
svars == <<endpoints, mu, env, pc, snapshot, cycleLog, idx, request, reply, chk,
           tempEndpoint, inflight, reqLog>>
vars == <<ep, resp, checks, requests, oc, dash, gc, endpoints, mu, env, pc, snapshot,
          cycleLog, idx, request, reply, chk, tempEndpoint, inflight, reqLog>>

----------------------------------------------------------------------------
(* Bounds *)

MaxRouteLen == 2      \* steps in the examined part of a decoded route
MaxRestLen == 1       \* steps in the part of the route after it
MaxChecks == 1        \* CheckAPI calls on one record in SpecHandlers
MaxPathLen == 2       \* steps of a stored swap path in SpecOnChain
MaxAmountsOut == 2    \* length of a decoded amounts-out array
MaxCallers == 3       \* goroutines calling getClient in SpecClients

----------------------------------------------------------------------------
(* Message and error values *)

\* fmt.Sprintf(kind, s, n, m): the format and its arguments
M(kind, s, n, m) == [kind |-> kind, s |-> s, n |-> n, m |-> m, wrapped |-> FALSE]

NoMessage == M("", "", 0, 0)
NoErr == M("nil", "", 0, 0)

\* "Error handling response: %v"
Wrap(err) == [err EXCEPT !.wrapped = TRUE]

SeqToSet(s) == {s[i] : i \in 1..Len(s)}

----------------------------------------------------------------------------
(* Strings.  TLC strings are atoms, so the substring and case-folding tests *)
(* of the code are tables over the finite alphabets used below.             *)

\* <<s, sub>>: sub occurs in s as a proper substring
ContainsTbl ==
    { <<"0x-Mainet-Boosted-Stable", "Stable">>,
      <<"Paraswap-Mainet-Boosted-Stable", "Stable">>,
      <<"1inch-Mainet-Boosted-Stable", "Stable">>,
      <<"1inch-Arbitrum-Boosted-GyroE", "GyroE">>,
      <<"1inch-Arbitrum-Boosted-GyroE", "Gyro">>,
      <<"1inch-Mainnet-Quant-BTF", "Quant">>,
      <<"1inch-Avax-Boosted-StableSurge", "Stable">>,
      <<"Barter-Mainet-Boosted-Stable", "Stable">>,
      <<"KyberSwap-Mainet-Boosted-Stable", "Stable">>,
      <<"KyberSwap-Plasma-Boosted-StableSurge", "Stable">>,
      <<"HyperBloom-Hyper-Boosted-StableSurge", "Stable">>,
      <<"OpenOcean-Mainet-Boosted-Stable", "Stable">>,
      <<"Odos-Mainet-Boosted-Stable", "Stable">>,
      <<"Odos-Mainnet-Quant-BTF", "Quant">>,
      <<"Balancer SOR-Mainet-Boosted-Stable", "Stable">>,
      <<"BASE_BALANCER_V3", "BALANCER_V3">>,
      <<"BalancerV3Stable", "BalancerV3">> }

\* strings.Contains(s, sub)
Contains(s, sub) == s = sub \/ <<s, sub>> \in ContainsTbl

\* strings.ToLower on the pool alphabet (every other string is lower case)
Lower(s) == IF s = "0xPOOL" THEN "0xpool" ELSE s

\* strings.EqualFold(a, b)
EqualFold(a, b) == Lower(a) = Lower(b)

----------------------------------------------------------------------------
(* collector.Endpoint *)

NewEndpoint(name, solver, network, hops) ==
    [ Name |-> name, RouteSolver |-> solver, Network |-> network,
      TokenIn |-> "0xin", TokenOut |-> "0xout", TokenOutDecimals |-> 3,
      SwapAmount |-> "1000000",
      ExpectedPool |-> "0xpool", ExpectedNoHops |-> hops,
      LastStatus |-> "unknown", LastChecked |-> "never",
      Message |-> NoMessage, ReturnAmount |-> "", MarketPrice |-> "",
      SwapPathPools |-> <<>>, SwapPathTokenOut |-> <<>>,
      SwapPathIsBuffer |-> <<>> ]

\* the zero Endpoint: a scratch copy that does not exist
NoEndpoint == NewEndpoint("", "", "", 0)

\* Endpoints of the cross product BaseEndpoints x RouteSolvers, one per
\* adapter behaviour.
Catalogue(hops) ==
    { NewEndpoint("0x-Mainet-Boosted-Stable", "0x", "1", hops),
      NewEndpoint("Paraswap-Mainet-Boosted-Stable", "paraswap", "1", hops),
      NewEndpoint("1inch-Mainet-Boosted-Stable", "1inch", "1", hops),
      NewEndpoint("1inch-Arbitrum-Boosted-GyroE", "1inch", "42161", hops),
      NewEndpoint("Barter-Mainet-Boosted-Stable", "barter", "1", hops),
      NewEndpoint("KyberSwap-Mainet-Boosted-Stable", "kyberswap", "1", hops),
      NewEndpoint("KyberSwap-Base-reCLAMM", "kyberswap", "8453", hops),
      NewEndpoint("HyperBloom-Hyper-Boosted-StableSurge", "hyperbloom", "999", hops),
      NewEndpoint("OpenOcean-Mainet-Boosted-Stable", "openocean", "1", hops),
      NewEndpoint("Odos-Mainet-Boosted-Stable", "odos", "1", hops),
      NewEndpoint("Odos-Mainnet-Quant-BTF", "odos", "1", hops),
      NewEndpoint("Balancer SOR-Mainet-Boosted-Stable", "balancer_sor", "1", hops) }

\* handleError of the client and of every adapter: status and message
handleError(e, status, message) ==
    [e EXCEPT !.LastStatus = status, !.Message = message]

----------------------------------------------------------------------------
(* api.APIResponse, as the fields the adapters decode from the body.        *)
(*   status     HTTP status code                                            *)
(*   parse      json.Unmarshal succeeds                                     *)
(*   apiErr     provider-level error marker ("" when there is none)         *)
(*   absent     the adapter's list is null or empty: 0x fills, Paraswap     *)
(*              bestRoute, 1inch protocols, Barter route, OpenOcean routes, *)
(*              Odos outAmounts, Balancer SOR paths                         *)
(*   route      the steps the adapter examines first (1inch                 *)
(*              Protocols[0][0], Barter Route[0].Swaps, SOR Paths[0])       *)
(*   rest       the steps after them (1inch later hops, Barter later routes)*)
(*   tokens     number of route tokens, -1 when the list is null            *)
(*   amount     the destination amount string                               *)

Step(source, pool, part) == [source |-> source, pool |-> pool, part |-> part]

AllSteps(r) == r.route \o r.rest

R(e, err) == [ep |-> e, err |-> err]

HasBad(seq, Bad(_)) == \E i \in 1..Len(seq) : Bad(seq[i])

\* the element at which a range loop with an early return stops
FirstBad(seq, Bad(_)) ==
    seq[CHOOSE i \in 1..Len(seq) : Bad(seq[i]) /\ \A j \in 1..(i-1) : ~Bad(seq[j])]

RECURSIVE SumParts(_)
SumParts(seq) == IF seq = <<>> THEN 0 ELSE Head(seq).part + SumParts(Tail(seq))

Sources(seq) == [i \in 1..Len(seq) |-> seq[i].source]
Pools(seq) == [i \in 1..Len(seq) |-> seq[i].pool]

\* a store that adds the new amount to the one already held
AppendAmount(e, amount) == [e EXCEPT !.ReturnAmount = @ \o amount]

\* "Store the return amount if available"
StoreIfAvailable(e, amount) ==
    IF amount # "" THEN [e EXCEPT !.ReturnAmount = amount] ELSE e

\* a count check that lets a shorter route pass
CountAtMost(actual, expected) == actual <= expected

\* "Check number of hops": len(...) != expected... fails the validation
CountMatches(actual, expected) == actual = expected

\* ZeroXHandler.HandleResponse
ZeroXHandleResponse(r, e) ==
    IF ~r.parse
      THEN R(handleError(e, "down", M("Error parsing JSON: %v", "", 0, 0)),
             M("error parsing JSON: %v", "", 0, 0))
    ELSE IF r.absent \/ r.tokens = -1
      THEN R(handleError(e, "down", M("No Routes Found", "", 0, 0)),
             M("response contains null fills or tokens", "", 0, 0))
    ELSE IF HasBad(r.route, LAMBDA st : st.source # "Balancer_V3")
      THEN LET fill == FirstBad(r.route, LAMBDA st : st.source # "Balancer_V3")
           IN R(handleError(e, "down",
                    M("Found source %s, expected Balancer_V3", fill.source, 0, 0)),
                M("found source %s, expected Balancer_V3", fill.source, 0, 0))
    ELSE IF ~CountMatches(r.tokens, e.ExpectedNoHops + 1)
      THEN R(handleError(e, "down",
                 M("Expected %d tokens (hops + 2), got %d", "", e.ExpectedNoHops + 1, r.tokens)),
             M("expected %d tokens, got %d", "", e.ExpectedNoHops + 1, r.tokens))
    ELSE R(StoreIfAvailable(e, r.amount), NoErr)

\* ParaswapHandler.HandleResponse
ParaswapHandleResponse(r, e) ==
    IF r.parse /\ r.apiErr = "No routes found with enough liquidity"
      THEN R(handleError(e, "down", M("No routes found with enough liquidity", "", 0, 0)),
             M("no routes found with enough liquidity", "", 0, 0))
    ELSE IF ~r.parse
      THEN R(handleError(e, "down", M("Error parsing JSON: %v", "", 0, 0)),
             M("error parsing JSON: %v", "", 0, 0))
    ELSE IF r.apiErr # ""
      THEN R(handleError(e, "down", M("API error: %s", r.apiErr, 0, 0)),
             M("API error: %s", r.apiErr, 0, 0))
    ELSE IF r.absent
      THEN R(handleError(e, "down", M("No best route found", "", 0, 0)),
             M("no best route found", "", 0, 0))
    ELSE IF ~HasBad(AllSteps(r), LAMBDA st : st.source = "BalancerV3")
      THEN R(handleError(e, "down", M("Route does not use Balancer V3", "", 0, 0)),
             M("route does not use Balancer V3", "", 0, 0))
    ELSE R(StoreIfAvailable(e, r.amount), NoErr)

\* OneInchHandler.HandleResponse
OneInchHandleResponse(r, e) ==
    IF ~r.parse
      THEN R(handleError(e, "down", M("Error parsing JSON: %v", "", 0, 0)),
             M("error parsing JSON: %v", "", 0, 0))
    ELSE IF r.apiErr = "insufficient liquidity"
      THEN R(handleError(e, "down", M("insufficient liquidity", "", 0, 0)),
             M("insufficient liquidity", "", 0, 0))
    ELSE IF r.absent
      THEN R(handleError(e, "down", M("1inch network support WIP", "", 0, 0)),
             M("1inch network support WIP", "", 0, 0))
    ELSE IF r.route = <<>>
      THEN R(handleError(e, "down", M("no protocols found in response", "", 0, 0)),
             M("no protocols found in response", "", 0, 0))
    ELSE IF HasBad(r.route, LAMBDA st : ~Contains(st.source, "BALANCER_V3"))
      THEN LET protocol == FirstBad(r.route, LAMBDA st : ~Contains(st.source, "BALANCER_V3"))
           IN R(handleError(e, "down",
                    M("found protocol %s, expected protocol containing BALANCER_V3", protocol.source, 0, 0)),
                M("found protocol %s, expected protocol containing BALANCER_V3", protocol.source, 0, 0))
    ELSE IF SumParts(r.route) # 100
      THEN R(handleError(e, "down",
                 M("protocol parts sum to %d, expected 100", "", SumParts(r.route), 0)),
             M("protocol parts sum to %d, expected 100", "", SumParts(r.route), 0))
    ELSE R(StoreIfAvailable(e, r.amount), NoErr)

\* BarterHandler.HandleResponse
BarterHandleResponse(r, e) ==
    IF ~r.parse
      THEN R(handleError(e, "down", M("Error parsing JSON: %v", "", 0, 0)),
             M("error parsing JSON: %v", "", 0, 0))
    ELSE IF r.apiErr # ""
      THEN R(handleError(e, "down", M("API status is %s, expected Normal", r.apiErr, 0, 0)),
             M("API status is %s, expected Normal", r.apiErr, 0, 0))
    ELSE IF r.absent
      THEN R(handleError(e, "down", M("No routes found in response", "", 0, 0)),
             M("no routes found in response", "", 0, 0))
    ELSE IF r.route = <<>>
      THEN R(handleError(e, "down", M("No swaps found in route", "", 0, 0)),
             M("no swaps found in route", "", 0, 0))
    ELSE IF HasBad(AllSteps(r), LAMBDA st : st.source # "BalancerV3")
      THEN LET swap == FirstBad(AllSteps(r), LAMBDA st : st.source # "BalancerV3")
           IN R(handleError(e, "down",
                    M("Found swap type %s, expected BalancerV3", swap.source, 0, 0)),
                M("found swap type %s, expected BalancerV3", swap.source, 0, 0))
    ELSE IF ~CountMatches(Len(r.route), e.ExpectedNoHops)
      THEN R(handleError(e, "down",
                 M("Expected %d swaps (hops), got %d", "", e.ExpectedNoHops, Len(r.route))),
             M("expected %d swaps, got %d", "", e.ExpectedNoHops, Len(r.route)))
    ELSE R(StoreIfAvailable(e, r.amount), NoErr)

\* KyberSwapHandler.GetIncludedSources / the switch of HandleResponse:
\* the expected source by pool type, "" when the name has no known type
KyberExpectedSource(name) ==
    IF Contains(name, "Quant") THEN "balancer-v3-quantamm"
    ELSE IF Contains(name, "Stable") THEN "balancer-v3-stable"
    ELSE IF Contains(name, "Gyro") THEN "balancer-v3-eclp"
    ELSE ""

\* KyberSwapHandler.HandleResponse
KyberSwapHandleResponse(r, e) ==
    LET expectedSource == KyberExpectedSource(e.Name)
        items == AllSteps(r)
    IN
    IF ~r.parse
      THEN R(handleError(e, "down", M("Error parsing JSON: %v", "", 0, 0)),
             M("error parsing JSON: %v", "", 0, 0))
    ELSE IF r.apiErr # ""
      THEN R(handleError(e, "down", M("kyberswap API error: %s (code: %d, requestId: %s)", r.apiErr, 0, 0)),
             M("kyberswap API error: %s (code: %d, requestId: %s)", r.apiErr, 0, 0))
    ELSE IF r.amount = ""
      THEN R(handleError(e, "down", M("no amountOut in route summary", "", 0, 0)),
             M("no amountOut in route summary", "", 0, 0))
    ELSE IF r.amount = "0"
      THEN R(handleError(e, "down", M("amountOut is 0", "", 0, 0)),
             M("amountOut is 0", "", 0, 0))
    ELSE IF r.routeID = ""
      THEN R(handleError(e, "down", M("no route ID in response", "", 0, 0)),
             M("no route ID in response", "", 0, 0))
    ELSE IF expectedSource = ""
      THEN R(handleError(e, "down", M("unsupported pool type for validation", "", 0, 0)),
             M("unsupported pool type for validation", "", 0, 0))
    ELSE IF ~HasBad(items, LAMBDA st : st.pool = e.ExpectedPool)
      THEN R(handleError(e, "down", M("expected pool %s not found in route", e.ExpectedPool, 0, 0)),
             M("expected pool %s not found in route", e.ExpectedPool, 0, 0))
    ELSE IF ~HasBad(items, LAMBDA st : st.source = expectedSource)
      THEN R(handleError(e, "down",
                 M("expected source %s not found in route. Found exchanges: %v", expectedSource, 0, 0)),
             M("expected source %s not found in route. Found exchanges: %v", expectedSource, 0, 0))
    ELSE IF HasBad(items, LAMBDA st : st.source # expectedSource)
      THEN LET item == FirstBad(items, LAMBDA st : st.source # expectedSource)
           IN R(handleError(e, "down",
                    M("unexpected source found in route: %s. Expected: %s, All exchanges: %v", item.source, 0, 0)),
                M("unexpected source found in route: %s. Expected: %s, All exchanges: %v", item.source, 0, 0))
    ELSE R(e, NoErr)

\* HyperBloomHandler.HandleResponse (a step's part is its proportion)
HyperBloomHandleResponse(r, e) ==
    LET sources == AllSteps(r)
        Unexpected(st) == st.part # 0 /\ st.source # "BalancerV3"
    IN
    IF ~r.parse
      THEN R(handleError(e, "down", M("Error parsing JSON: %v", "", 0, 0)),
             M("error parsing JSON: %v", "", 0, 0))
    ELSE IF r.amount = ""
      THEN R(handleError(e, "down", M("no buyAmount in response", "", 0, 0)),
             M("no buyAmount in response", "", 0, 0))
    ELSE IF r.amount = "0"
      THEN R(handleError(e, "down", M("buyAmount is 0", "", 0, 0)),
             M("buyAmount is 0", "", 0, 0))
    ELSE IF r.price = ""
      THEN R(handleError(e, "down", M("no price in response", "", 0, 0)),
             M("no price in response", "", 0, 0))
    ELSE IF r.price = "0"
      THEN R(handleError(e, "down", M("price is 0", "", 0, 0)),
             M("price is 0", "", 0, 0))
    ELSE IF sources = <<>>
      THEN R(handleError(e, "down", M("no sources in response", "", 0, 0)),
             M("no sources in response", "", 0, 0))
    ELSE IF HasBad(sources, Unexpected)
      THEN LET source == FirstBad(sources, Unexpected)
           IN R(handleError(e, "down",
                    M("unexpected source found: %s with proportion %s. Expected only BalancerV3", source.source, source.part, 0)),
                M("unexpected source found: %s with proportion %s. Expected only BalancerV3", source.source, source.part, 0))
    ELSE IF ~HasBad(sources, LAMBDA st : st.part # 0)
      THEN R(handleError(e, "down", M("no BalancerV3 source found with proportion > 0", "", 0, 0)),
             M("no BalancerV3 source found with proportion > 0", "", 0, 0))
    ELSE IF r.sellToken # e.TokenIn
      THEN R(handleError(e, "down", M("sellTokenAddress mismatch: expected %s, got %s", r.sellToken, 0, 0)),
             M("sellTokenAddress mismatch: expected %s, got %s", r.sellToken, 0, 0))
    ELSE IF r.buyToken # e.TokenOut
      THEN R(handleError(e, "down", M("buyTokenAddress mismatch: expected %s, got %s", r.buyToken, 0, 0)),
             M("buyTokenAddress mismatch: expected %s, got %s", r.buyToken, 0, 0))
    ELSE R(e, NoErr)

\* OpenOceanHandler.HandleResponse
OpenOceanHandleResponse(r, e) ==
    LET dexes == AllSteps(r) IN
    IF ~r.parse
      THEN R(handleError(e, "down", M("Error parsing JSON: %v", "", 0, 0)),
             M("error parsing JSON: %v", "", 0, 0))
    ELSE IF r.apiErr # ""
      THEN R(handleError(e, "down", M("OpenOcean API error (code %d): %s", r.apiErr, 0, 0)),
             M("OpenOcean API error (code %d): %s", r.apiErr, 0, 0))
    ELSE IF r.amount = "" \/ r.amount = "0"
      THEN R(handleError(e, "down", M("No outAmount or outAmount is 0", "", 0, 0)),
             M("no outAmount or outAmount is 0", "", 0, 0))
    ELSE IF r.absent
      THEN R(handleError(e, "down", M("No routes found in response", "", 0, 0)),
             M("no routes found in response", "", 0, 0))
    ELSE IF HasBad(dexes, LAMBDA st : ~Contains(st.source, "BalancerV3"))
      THEN LET dex == FirstBad(dexes, LAMBDA st : ~Contains(st.source, "BalancerV3"))
           IN R(handleError(e, "down", M("Found DEX %s, expected BalancerV3", dex.source, 0, 0)),
                M("found DEX %s, expected BalancerV3", dex.source, 0, 0))
    ELSE IF ~HasBad(dexes, LAMBDA st : EqualFold(st.pool, e.ExpectedPool))
      THEN R(handleError(e, "down", M("Expected pool %s not found in route", e.ExpectedPool, 0, 0)),
             M("expected pool %s not found in route", e.ExpectedPool, 0, 0))
    ELSE R([e EXCEPT !.ReturnAmount = r.amount], NoErr)

\* OdosHandler.validateOdosResponse: the error it returns, NoErr when valid
\* (outValue is OutValues[0], -1 when OutValues is empty)
validateOdosResponse(r) ==
    IF r.parse /\ r.apiErr # ""
      THEN M("odos API error: %s (code: %d)", r.apiErr, 0, 0)
    ELSE IF ~r.parse
      THEN M("failed to parse response: %v", "", 0, 0)
    ELSE IF r.outValue = -1
      THEN M("no outValues in response", "", 0, 0)
    ELSE IF r.outValue <= 0
      THEN M("outValues is not greater than 0: %f", "", r.outValue, 0)
    ELSE NoErr

\* OdosHandler.HandleResponse (absent: OutAmounts is empty)
OdosHandleResponse(r, e) ==
    IF r.status # 200
      THEN R(e, M("unexpected status code: %d", "", r.status, 0))
    ELSE IF validateOdosResponse(r) # NoErr
      THEN R(e, [validateOdosResponse(r) EXCEPT
                   !.kind = "response validation failed: " \o @])
    ELSE IF ~r.absent
      THEN R([e EXCEPT !.ReturnAmount = r.amount], NoErr)
    ELSE R(e, NoErr)

----------------------------------------------------------------------------
(* Balancer SOR: decimal amounts *)

RECURSIVE Pow10(_)
Pow10(n) == IF n = 0 THEN 1 ELSE 10 * Pow10(n - 1)

\* big.Float.SetString on the amount alphabet: value = mant / 10^scale
ParseDecimal(s) ==
    CASE s = "0"        -> [ok |-> TRUE, mant |-> 0, scale |-> 0]
      [] s = "987654"   -> [ok |-> TRUE, mant |-> 987654, scale |-> 0]
      [] s = "0.987654" -> [ok |-> TRUE, mant |-> 987654, scale |-> 6]
      [] s = "1.5"      -> [ok |-> TRUE, mant |-> 15, scale |-> 1]
      [] OTHER          -> [ok |-> FALSE, mant |-> 0, scale |-> 0]

\* BalancerSORHandler.convertFromDecimalAmount: value * 10^decimals,
\* truncated to an integer and printed in base 10
convertFromDecimalAmount(decimalAmount, decimals) ==
    LET d == ParseDecimal(decimalAmount) IN
    IF ~d.ok THEN [ok |-> FALSE, raw |-> ""]
    ELSE [ok |-> TRUE,
          raw |-> ToString(IF decimals >= d.scale
                             THEN d.mant * Pow10(decimals - d.scale)
                             ELSE d.mant \div Pow10(d.scale - decimals))]

TokenAddrs == <<"0xin", "0xmid", "0xout", "0xmid2", "0xmid3", "0xmid4">>
TokenAddr(i) == IF i \in 1..Len(TokenAddrs) THEN TokenAddrs[i] ELSE "0xtoken"

\* BalancerSORHandler.HandleResponse (route: Paths[0].Pools, tokens:
\* len(Paths[0].Tokens), isBuffer: Paths[0].IsBuffer)
BalancerSORHandleResponse(r, e) ==
    LET conv == convertFromDecimalAmount(r.amount, e.TokenOutDecimals)
        e1 == [e EXCEPT !.ReturnAmount = IF conv.ok THEN conv.raw ELSE r.amount]
        pools == Pools(r.route)
        e2 == [e1 EXCEPT
                 !.SwapPathPools = pools,
                 !.SwapPathIsBuffer = r.isBuffer,
                 !.SwapPathTokenOut =
                     IF r.tokens > 0
                       THEN [i \in 1..Len(pools) |->
                               IF i + 1 <= r.tokens THEN TokenAddr(i + 1)
                               ELSE TokenAddr(r.tokens)]
                       ELSE @]
    IN
    IF ~r.parse
      THEN R(handleError(e, "down", M("Error parsing JSON: %v", "", 0, 0)),
             M("error parsing JSON: %v", "", 0, 0))
    ELSE IF r.apiErr # ""
      THEN R(handleError(e, "down", M("GraphQL error: %s", r.apiErr, 0, 0)),
             M("GraphQL error: %s", r.apiErr, 0, 0))
    ELSE IF r.swapAmount = ""
      THEN R(handleError(e, "down", M("No swap amount found in response", "", 0, 0)),
             M("no swap amount found in response", "", 0, 0))
    ELSE IF r.amount = ""
      THEN R(handleError(e, "down", M("No return amount found in response", "", 0, 0)),
             M("no return amount found in response", "", 0, 0))
    ELSE IF r.absent
      THEN R(handleError(e1, "down", M("No paths found in response", "", 0, 0)),
             M("no paths found in response", "", 0, 0))
    ELSE IF ~HasBad(r.route, LAMBDA st : st.pool = e.ExpectedPool)
      THEN R(handleError(e2, "down", M("Expected pool %s not found in pools: %v", e.ExpectedPool, 0, 0)),
             M("expected pool %s not found in pools: %v", e.ExpectedPool, 0, 0))
    ELSE R(e2, NoErr)

----------------------------------------------------------------------------
(* Market-price validators *)

\* HandleResponseForMarketPrice of ZeroXHandler, ParaswapHandler,
\* OneInchHandler, BarterHandler and OpenOceanHandler
HandleResponseForMarketPrice(r, e) ==
    IF ~r.parse THEN R(e, M("error parsing JSON: %v", "", 0, 0))
    ELSE IF r.amount # "" THEN R([e EXCEPT !.MarketPrice = r.amount], NoErr)
    ELSE R(e, NoErr)

\* BalancerSORHandler.HandleResponseForMarketPrice
BalancerSORHandleResponseForMarketPrice(r, e) ==
    LET conv == convertFromDecimalAmount(r.amount, e.TokenOutDecimals) IN
    IF ~r.parse THEN R(e, M("error parsing JSON: %v", "", 0, 0))
    ELSE IF r.amount # ""
      THEN R([e EXCEPT !.MarketPrice = IF conv.ok THEN conv.raw ELSE r.amount], NoErr)
    ELSE R(e, NoErr)

----------------------------------------------------------------------------
(* Provider configuration (InitializeRegistry) and request builders *)

\* GlobalRegistry.providers: the registered route solvers
Registered ==
    {"0x", "paraswap", "1inch", "hyperbloom", "kyberswap", "odos",
     "balancer_sor", "barter"}

\* ProviderConfig.APIKeyEnvVar ("" when the provider needs no key)
APIKeyEnvVar(solver) ==
    CASE solver = "0x"         -> "ZEROX_API_KEY"
      [] solver = "1inch"      -> "INCH_API_KEY"
      [] solver = "hyperbloom" -> "HYPERBLOOM_API_KEY"
      [] solver = "barter"     -> "BARTER_API_KEY"
      [] OTHER                 -> ""

\* ProviderConfig.UsePOST with a RequestBodyBuilder
UsePOST(solver) == solver \in {"odos", "balancer_sor", "barter"}

\* KyberSwapHandler.GetChainName: the chain of the request URL
GetChainName(chainID) ==
    CASE chainID = "1"      -> "ethereum"
      [] chainID = "56"     -> "bsc"
      [] chainID = "42161"  -> "arbitrum"
      [] chainID = "137"    -> "polygon"
      [] chainID = "10"     -> "optimism"
      [] chainID = "43114"  -> "avalanche"
      [] chainID = "8453"   -> "base"
      [] chainID = "324"    -> "zksync"
      [] chainID = "250"    -> "fantom"
      [] chainID = "59144"  -> "linea"
      [] chainID = "534352" -> "scroll"
      [] chainID = "5000"   -> "mantle"
      [] chainID = "81457"  -> "blast"
      [] chainID = "146"    -> "sonic"
      [] chainID = "80094"  -> "berachain"
      [] chainID = "2020"   -> "ronin"
      [] chainID = "999"    -> "hyperevm"
      [] OTHER              -> "ethereum"

\* the network ids each adapter's request builder has a case for (the empty
\* set for an adapter that maps no network id)
NetworkTable(solver) ==
    CASE solver = "0x"           -> {"42161", "8453", "1", "43114", "9745"}
      [] solver = "paraswap"     -> {"100", "42161", "8453", "1", "43114"}
      [] solver = "1inch"        -> {"100", "42161", "8453", "1", "43114"}
      [] solver = "barter"       -> {"1", "42161", "8453", "100"}
      [] solver = "kyberswap"    -> {"1", "56", "42161", "137", "10", "43114", "8453",
                                     "324", "250", "59144", "534352", "5000", "81457",
                                     "146", "80094", "2020", "999"}
      [] solver = "balancer_sor" -> {"1", "42161", "10", "8453", "43114", "100", "999",
                                     "9745"}
      [] OTHER                   -> {}

\* URLBuilder.BuildURL of the endpoint's adapter: the error it returns
BuildURL(e, isBalancerSourceOnly) ==
    CASE e.RouteSolver = "0x" ->
           IF isBalancerSourceOnly
              /\ e.Network \notin {"42161", "8453", "1", "43114", "9745"}
             THEN M("error getting ignore list: %v", e.Network, 0, 0) ELSE NoErr
      [] e.RouteSolver = "paraswap" ->
           IF isBalancerSourceOnly
              /\ e.Network \notin {"100", "42161", "8453", "1", "43114"}
             THEN M("error getting ignore list: %v", e.Network, 0, 0) ELSE NoErr
      [] e.RouteSolver = "1inch" ->
           IF isBalancerSourceOnly
              /\ e.Network \notin {"100", "42161", "8453", "1", "43114"}
             THEN M("error getting 1inch balancer name: %v", e.Network, 0, 0) ELSE NoErr
      [] e.RouteSolver = "barter" ->
           IF e.Network \notin {"1", "42161", "8453", "100"}
             THEN M("unsupported network: %s", e.Network, 0, 0) ELSE NoErr
      [] e.RouteSolver = "kyberswap" ->
           IF KyberExpectedSource(e.Name) = ""
             THEN M("error getting included sources: %v", "unsupported pool type", 0, 0)
             ELSE NoErr
      [] OTHER -> NoErr

\* RequestBodyBuilder.BuildRequestBody of the endpoint's adapter
BuildRequestBody(e, isBalancerSourceOnly) ==
    IF e.RouteSolver = "balancer_sor"
       /\ e.Network \notin {"1", "42161", "10", "8453", "43114", "100", "999", "9745"}
      THEN M("error converting network to chain: %v", e.Network, 0, 0)
      ELSE NoErr

\* ResponseHandler.HandleResponse of the endpoint's adapter
HandleResponse(r, e) ==
    CASE e.RouteSolver = "0x"           -> ZeroXHandleResponse(r, e)
      [] e.RouteSolver = "paraswap"     -> ParaswapHandleResponse(r, e)
      [] e.RouteSolver = "1inch"        -> OneInchHandleResponse(r, e)
      [] e.RouteSolver = "barter"       -> BarterHandleResponse(r, e)
      [] e.RouteSolver = "kyberswap"    -> KyberSwapHandleResponse(r, e)
      [] e.RouteSolver = "hyperbloom"   -> HyperBloomHandleResponse(r, e)
      [] e.RouteSolver = "openocean"    -> OpenOceanHandleResponse(r, e)
      [] e.RouteSolver = "odos"         -> OdosHandleResponse(r, e)
      [] e.RouteSolver = "balancer_sor" -> BalancerSORHandleResponse(r, e)

\* the market-price validator of the endpoint's adapter
MarketPriceHandler(r, e) ==
    IF e.RouteSolver = "balancer_sor"
      THEN BalancerSORHandleResponseForMarketPrice(r, e)
      ELSE HandleResponseForMarketPrice(r, e)

----------------------------------------------------------------------------
(* api.APIClient *)

\* a key validation that accepts an unset variable
ValidateAPIKeyUnchecked(envVar, e, environ) == [ep |-> e, ok |-> TRUE]

\* APIClient.ValidateAPIKey: [ep, ok]
ValidateAPIKey(envVar, e, environ) ==
    IF envVar \notin environ
      THEN [ep |-> handleError(e, "error", M("%s environment variable not set", envVar, 0, 0)),
            ok |-> FALSE]
      ELSE [ep |-> e, ok |-> TRUE]

\* APIClient.CheckAPI up to the moment the request is sent: [ep, sent]
CheckAPIStart(e, isBalancerSourceOnly) ==
    LET e1 == [e EXCEPT !.LastChecked = "now"]
        bodyErr == IF UsePOST(e.RouteSolver)
                     THEN BuildRequestBody(e1, isBalancerSourceOnly) ELSE NoErr
        urlErr == BuildURL(e1, isBalancerSourceOnly)
    IN
    IF bodyErr # NoErr
      THEN [ep |-> handleError(e1, "error",
                       [bodyErr EXCEPT !.kind = "Error building request body: " \o @]),
            sent |-> FALSE]
    ELSE IF urlErr # NoErr
      THEN [ep |-> handleError(e1, "error",
                       [urlErr EXCEPT !.kind = "Error building URL: " \o @]),
            sent |-> FALSE]
    ELSE [ep |-> e1, sent |-> TRUE]

\* HTTP requests the URL builder of the endpoint's adapter sends itself:
\* OpenOcean fetches the gas price and, in restricted mode, the DEX list
BuildURLRequests(e, isBalancerSourceOnly) ==
    IF e.RouteSolver = "openocean"
      THEN IF isBalancerSourceOnly THEN 2 ELSE 1
      ELSE 0

\* HTTP requests sent by one APIClient.CheckAPI call, its own included
CheckAPIRequests(e, isBalancerSourceOnly) ==
    IF UsePOST(e.RouteSolver) /\ BuildRequestBody(e, isBalancerSourceOnly) # NoErr
      THEN 0
      ELSE BuildURLRequests(e, isBalancerSourceOnly)
           + (IF CheckAPIStart(e, isBalancerSourceOnly).sent THEN 1 ELSE 0)

\* a client that treats a status other than 200 as a transport error
MakeGETRequestRejectNon2xx(e, r) ==
    IF r.kind # "response" \/ r.status # 200
      THEN [ep |-> handleError([e EXCEPT !.LastChecked = "now"], "down",
                               M("Error sending request: %v", "", 0, 0)),
            ok |-> FALSE, response |-> [kind |-> "none"]]
      ELSE [ep |-> [e EXCEPT !.LastChecked = "now"], ok |-> TRUE, response |-> r]

\* APIClient.MakeGETRequest / MakePOSTRequest with outcome r of client.Do
\* and io.ReadAll: [ep, ok, response]
MakeGETRequest(e, r) ==
    LET e1 == [e EXCEPT !.LastChecked = "now"] IN
    IF r.kind = "sendfail"
      THEN [ep |-> handleError(e1, "down", M("Error sending request: %v", "", 0, 0)),
            ok |-> FALSE, response |-> [kind |-> "none"]]
    ELSE IF r.kind = "readfail"
      THEN [ep |-> handleError(e1, "down", M("Error reading response: %v", "", 0, 0)),
            ok |-> FALSE, response |-> [kind |-> "none"]]
    ELSE [ep |-> e1, ok |-> TRUE, response |-> r]

\* APIClient.CheckAPI from the outcome r of MakeGETRequest / MakePOSTRequest
CheckAPIFinish(e, r) ==
    LET m == MakeGETRequest(e, r) IN
    IF ~m.ok THEN m.ep
    ELSE LET h == HandleResponse(m.response, m.ep) IN
         IF h.err # NoErr
           THEN handleError(h.ep, "down", Wrap(h.err))
           ELSE [h.ep EXCEPT !.LastStatus = "up", !.Message = M("Ok", "", 0, 0)]

\* APIClient.CheckAPIForMarketPrice up to the moment the request is sent:
\* the request of CheckAPI, built for the mode it is given
CheckAPIForMarketPriceStart(e, isBalancerSourceOnly) ==
    CheckAPIStart(e, isBalancerSourceOnly)

\* APIClient.CheckAPIForMarketPrice from the outcome r of the request: the
\* unrestricted check validates with the market-price validator
CheckAPIForMarketPriceFinish(e, r) ==
    IF r.kind = "sendfail"
      THEN handleError(e, "down", M("Error sending request: %v", "", 0, 0))
    ELSE IF r.kind = "readfail"
      THEN handleError(e, "down", M("Error reading response: %v", "", 0, 0))
    ELSE LET h == MarketPriceHandler(r, e) IN
         IF h.err # NoErr
           THEN handleError(h.ep, "down", Wrap(h.err))
           ELSE h.ep

----------------------------------------------------------------------------
(* The response space: what a provider can send back *)

DefaultResp ==
    [ kind |-> "response", status |-> 200, parse |-> TRUE, apiErr |-> "",
      absent |-> FALSE, route |-> <<>>, rest |-> <<>>, tokens |-> 0,
      amount |-> "987654", price |-> "1", sellToken |-> "0xin",
      buyToken |-> "0xout", routeID |-> "rid", outValue |-> 1,
      swapAmount |-> "1", isBuffer |-> <<>> ]

\* no request made yet / request sent, outcome not yet known / not sent
NoResp == [DefaultResp EXCEPT !.kind = "none"]
Pending == [DefaultResp EXCEPT !.kind = "pending"]
Unsent == [DefaultResp EXCEPT !.kind = "unsent"]

Amounts == {"", "0", "987654"}
HopCounts == {1, 2}

SeqsUpTo(S, n) == UNION {[1..k -> S] : k \in 0..n}

\* route steps a provider may report; the first is the accepted one
StepsOf(solver) ==
    CASE solver = "0x" ->
           { Step("Balancer_V3", "0xpool", 100), Step("Balancer_V3", "0xother", 100),
             Step("Uniswap_V3", "0xother", 100) }
      [] solver \in {"paraswap", "barter"} ->
           { Step("BalancerV3", "0xpool", 100), Step("BalancerV3", "0xother", 100),
             Step("UniswapV3", "0xother", 100) }
      [] solver = "1inch" ->
           { Step("BALANCER_V3", "0xpool", 100), Step("BALANCER_V3", "0xother", 50),
             Step("BASE_BALANCER_V3", "0xother", 50), Step("UNISWAP_V3", "0xother", 50) }
      [] solver = "kyberswap" ->
           { Step("balancer-v3-stable", "0xpool", 100),
             Step("balancer-v3-stable", "0xother", 100),
             Step("uniswapv3", "0xpool", 100) }
      [] solver = "hyperbloom" ->
           { Step("BalancerV3", "", 100), Step("BalancerV3", "", 0),
             Step("HyperSwap", "", 0), Step("HyperSwap", "", 100) }
      [] solver = "openocean" ->
           { Step("BalancerV3", "0xpool", 100), Step("BalancerV3Stable", "0xPOOL", 100),
             Step("BalancerV3", "0xother", 100), Step("UniswapV3", "0xother", 100) }
      [] solver = "balancer_sor" ->
           { Step("", "0xpool", 100), Step("", "0xother", 100) }
      [] OTHER -> {}

\* steps after the examined part: 1inch later hops, Barter later routes
RestOf(solver) ==
    CASE solver = "1inch" ->
           { Step("BALANCER_V3", "0xother", 100), Step("UNISWAP_V3", "0xother", 100) }
      [] solver = "barter" ->
           { Step("BalancerV3", "0xother", 100), Step("UniswapV3", "0xother", 100) }
      [] OTHER -> {}

\* transport failures and undecodable or provider-level error replies
FailedReplies(solver) ==
    { [DefaultResp EXCEPT !.kind = "sendfail"],
      [DefaultResp EXCEPT !.kind = "readfail"],
      [DefaultResp EXCEPT !.parse = FALSE],
      [DefaultResp EXCEPT !.status = 500, !.parse = FALSE],
      [DefaultResp EXCEPT !.absent = TRUE, !.tokens = -1] }
    \cup (CASE solver = "paraswap" ->
                 { [DefaultResp EXCEPT !.apiErr = "No routes found with enough liquidity"],
                   [DefaultResp EXCEPT !.apiErr = "Invalid tokens"] }
            [] solver = "1inch" ->
                 { [DefaultResp EXCEPT !.apiErr = "insufficient liquidity"] }
            [] solver = "barter" ->
                 { [DefaultResp EXCEPT !.apiErr = "Degraded"] }
            [] solver = "kyberswap" ->
                 { [DefaultResp EXCEPT !.apiErr = "route not found"],
                   [DefaultResp EXCEPT !.routeID = "",
                       !.route = <<Step("balancer-v3-stable", "0xpool", 100)>>] }
            [] solver = "hyperbloom" ->
                 { [DefaultResp EXCEPT !.route = <<Step("BalancerV3", "", 100)>>,
                       !.price = pr, !.sellToken = st, !.buyToken = bt] :
                     pr \in {"", "0", "1"}, st \in {"0xin", "0xother"},
                     bt \in {"0xout", "0xother"} }
            [] solver = "openocean" ->
                 { [DefaultResp EXCEPT !.apiErr = "400"] }
            [] solver = "odos" ->
                 { [DefaultResp EXCEPT !.apiErr = "2000"],
                   [DefaultResp EXCEPT !.status = 500] }
            [] solver = "balancer_sor" ->
                 { [DefaultResp EXCEPT !.apiErr = "Bad request"],
                   [DefaultResp EXCEPT !.swapAmount = ""] }
            [] OTHER -> {})

\* decodable replies carrying a route
RouteReplies(solver) ==
    CASE solver = "0x" ->
           { [DefaultResp EXCEPT !.route = rt, !.tokens = tk, !.amount = am] :
               rt \in SeqsUpTo(StepsOf(solver), MaxRouteLen),
               tk \in {h + 1 : h \in HopCounts}, am \in Amounts }
      [] solver = "odos" ->
           { [DefaultResp EXCEPT !.absent = ab, !.outValue = ov, !.amount = am] :
               ab \in BOOLEAN, ov \in {-1, 0, 1}, am \in {"0", "987654"} }
      [] solver = "balancer_sor" ->
           { [DefaultResp EXCEPT !.route = rt, !.tokens = tk, !.amount = am,
                                 !.isBuffer = [i \in 1..bl |-> FALSE]] :
               rt \in SeqsUpTo(StepsOf(solver), MaxRouteLen),
               tk \in 0..(MaxRouteLen + 1), bl \in {0, MaxRouteLen},
               am \in {"", "0", "0.987654", "1.5", "abc"} }
      [] OTHER ->
           { [DefaultResp EXCEPT !.route = rt, !.rest = rs, !.amount = am] :
               rt \in SeqsUpTo(StepsOf(solver), MaxRouteLen),
               rs \in SeqsUpTo(RestOf(solver), MaxRestLen), am \in Amounts }

\* replies with a non-2xx status whose body still decodes to a one-step
\* route and an amount
StatusReplies(solver) ==
    { [x EXCEPT !.status = 404] :
        x \in { y \in RouteReplies(solver) :
                  /\ Len(y.route) = 1 /\ y.rest = <<>>
                  /\ y.amount \in {"987654", "0.987654"} } }

Responses(solver) ==
    FailedReplies(solver) \cup RouteReplies(solver) \cup StatusReplies(solver)

----------------------------------------------------------------------------
(* monitor.ProviderRegistry *)

\* a compatibility table that flags Odos only
isWIPCaseOdosOnly(e) == e.RouteSolver = "odos" /\ Contains(e.Name, "Quant")

\* ProviderRegistry.isWIPCase
isWIPCase(e) ==
    CASE e.RouteSolver = "1inch" ->
           Contains(e.Name, "GyroE") \/ Contains(e.Name, "Quant") \/ e.Network = "43114"
      [] e.RouteSolver = "odos" -> Contains(e.Name, "Quant")
      [] OTHER -> FALSE

\* the message handleWIPCase chooses
WIPMessage(e) ==
    CASE e.RouteSolver = "1inch" ->
           IF Contains(e.Name, "GyroE") THEN M("1inch GyroE integration WIP", "", 0, 0)
           ELSE IF Contains(e.Name, "Quant") THEN M("1inch QuantAMM integration WIP", "", 0, 0)
           ELSE IF e.Network = "43114" THEN M("1inch network support WIP", "", 0, 0)
           ELSE NoMessage
      [] e.RouteSolver = "odos" -> M("Odos QuantAMM integration WIP", "", 0, 0)
      [] OTHER -> NoMessage

\* a known-unsupported endpoint marked the way a switched-off provider is
handleWIPCaseDisabled(e) ==
    [e EXCEPT !.LastChecked = "now", !.LastStatus = "disabled",
              !.Message = WIPMessage(e)]

\* ProviderRegistry.handleWIPCase
handleWIPCase(e) ==
    [e EXCEPT !.LastChecked = "now", !.LastStatus = "info", !.Message = WIPMessage(e)]

\* an unregistered provider sent on to the generic client
MarkUnsupportedByClient(e) == CheckAPIFinish(e, [DefaultResp EXCEPT !.kind = "sendfail"])

\* ProviderRegistry.CheckProvider, provider not found
MarkUnsupported(e) ==
    [e EXCEPT !.LastChecked = "now", !.LastStatus = "unsupported"]

\* ProviderRegistry.checkWithGenericClient up to the moment the request is
\* sent: [ep, sent]
checkWithGenericClient(e, isBalancerSourceOnly, environ) ==
    LET envVar == APIKeyEnvVar(e.RouteSolver)
        key == ValidateAPIKey(envVar, e, environ)
    IN
    IF isWIPCase(e) THEN [ep |-> handleWIPCase(e), sent |-> FALSE]
    ELSE IF envVar # "" /\ ~key.ok THEN [ep |-> key.ep, sent |-> FALSE]
    ELSE CheckAPIStart(e, isBalancerSourceOnly)

\* the market-price check run on the endpoint itself, without a scratch copy
StoreWholeCopy(e, temp) == temp

\* "Store the market price result in the original endpoint"
StoreMarketPrice(e, temp) == [e EXCEPT !.MarketPrice = temp.MarketPrice]

\* ProviderRegistry.checkWithGenericClientForMarketPrice up to the moment
\* the request is sent: [ep, temp, sent]; temp is the scratch copy
checkWithGenericClientForMarketPrice(e, environ) ==
    LET envVar == APIKeyEnvVar(e.RouteSolver)
        key == ValidateAPIKey(envVar, e, environ)
        st == CheckAPIForMarketPriceStart(e, FALSE)
    IN
    IF isWIPCase(e) THEN [ep |-> e, temp |-> NoEndpoint, sent |-> FALSE]
    ELSE IF envVar # "" /\ ~key.ok
      THEN [ep |-> key.ep, temp |-> NoEndpoint, sent |-> FALSE]
    ELSE IF st.sent THEN [ep |-> e, temp |-> st.ep, sent |-> TRUE]
    ELSE [ep |-> StoreMarketPrice(e, st.ep), temp |-> st.ep, sent |-> FALSE]

\* a CheckProvider that returns after the restricted sub-check
AfterRestrictedReturn(nilOptions) == "done"

\* CheckProvider after the restricted sub-check: "sleep" leads to the
\* market-price sub-check, "done" to the return
AfterRestricted(nilOptions) == IF nilOptions THEN "sleep" ELSE "done"

----------------------------------------------------------------------------
(* Values of the variables a specification does not use *)

NoRequest == [method |-> "", name |-> ""]

\* no QueryOnChainPrice call: rpc the networks with an RPC URL, dial whether
\* an RPC client can be created, calls the contract calls made, amount / err
\* the values returned
NoQuery ==
    [ phase |-> "none", rpc |-> {}, dial |-> TRUE, calls |-> <<>>,
      amount |-> "", err |-> "" ]

\* no dashboard row is being rendered
NoRow == [ret |-> "", mp |-> "", class |-> "none"]

\* no getClient call has been made: an empty cache, a free lock, no caller
NoClients ==
    [clients |-> <<>>, readers |-> {}, writer |-> 0, callers |-> <<>>, made |-> <<>>]

\* no CheckProvider call is running.  Of a running call: owner is the
\* goroutine that holds the lock, i the index of &endpoints[i], nilOptions
\* whether options == nil, phase the control point, sub the sub-check last
\* entered, before / mid the record at the call's entry / at the entry of the
\* market-price sub-check.
NoCheck ==
    [ owner |-> "", i |-> 0, nilOptions |-> FALSE, phase |-> "none", sub |-> "",
      before |-> NoEndpoint, mid |-> NoEndpoint ]

StoreIdle ==
    /\ mu = "free"
    /\ pc = [p \in {"sched", "web"} |-> IF p = "sched" THEN "copy" ELSE "idle"]
    /\ snapshot = <<>>
    /\ cycleLog = <<>>
    /\ idx = 1
    /\ request = NoRequest
    /\ reply = 0
    /\ chk = NoCheck
    /\ tempEndpoint = NoEndpoint
    /\ inflight = "none"
    /\ reqLog = <<>>

----------------------------------------------------------------------------
(* SpecHandlers: the restricted CheckAPI of every adapter, applied up to    *)
(* MaxChecks times to one endpoint record, over the whole response space.   *)

InitHandlers ==
    /\ ep \in {e \in UNION {Catalogue(h) : h \in HopCounts} : ~isWIPCase(e)}
    /\ resp = NoResp
    /\ checks = 0
    /\ requests = 0
    /\ oc = NoQuery
    /\ dash = NoRow
    /\ gc = NoClients
    /\ endpoints = <<>>
    /\ env = {}
    /\ StoreIdle

\* APIClient.CheckAPI, from its entry to the request being sent
SendRequest ==
    /\ resp.kind # "pending"
    /\ checks < MaxChecks
    /\ LET st == CheckAPIStart(ep, TRUE) IN
         /\ ep' = st.ep
         /\ resp' = IF st.sent THEN Pending ELSE Unsent
    /\ checks' = checks + 1
    /\ requests' = CheckAPIRequests(ep, TRUE)
    /\ UNCHANGED <<svars, ovars>>

\* APIClient.CheckAPI, from the outcome of the request to its return
HandleReply ==
    /\ resp.kind = "pending"
    /\ \E r \in Responses(ep.RouteSolver) :
         /\ ep' = CheckAPIFinish(ep, r)
         /\ resp' = r
    /\ UNCHANGED <<checks, requests, svars, ovars>>

\* the next APIClient.CheckAPI call on the record, answered with the same
\* bytes as the last one
CheckAgain ==
    /\ resp.kind = "response"
    /\ checks <= MaxChecks
    /\ LET st == CheckAPIStart(ep, TRUE) IN
         ep' = IF st.sent THEN CheckAPIFinish(st.ep, resp) ELSE st.ep
    /\ checks' = MaxChecks + 1
    /\ UNCHANGED <<resp, requests, svars, ovars>>

NextHandlers == SendRequest \/ HandleReply \/ CheckAgain

SpecHandlers == InitHandlers /\ [][NextHandlers]_vars

----------------------------------------------------------------------------
(* What the route claims speak about *)

\* OneInchHandler.GetBalancerName
GetBalancerName(network) ==
    CASE network = "100"   -> "GNOSIS_BALANCER_V3"
      [] network = "42161" -> "ARBITRUM_BALANCER_V3"
      [] network = "8453"  -> "BASE_BALANCER_V3"
      [] network = "1"     -> "BALANCER_V3"
      [] network = "43114" -> "AVALANCHE_BALANCER_V3"
      [] OTHER             -> ""

\* the liquidity source each adapter requires in restricted mode
RequiredSource(e) ==
    CASE e.RouteSolver = "0x"        -> "Balancer_V3"
      [] e.RouteSolver = "1inch"     -> GetBalancerName(e.Network)
      [] e.RouteSolver = "kyberswap" -> KyberExpectedSource(e.Name)
      [] OTHER                       -> "BalancerV3"

\* adapters whose response lists liquidity sources
SourceAdapters ==
    {"0x", "paraswap", "1inch", "barter", "kyberswap", "hyperbloom", "openocean"}

\* adapters whose response lists pool addresses
PoolAdapters == {"paraswap", "barter", "kyberswap", "openocean", "balancer_sor"}

\* the sources the decoded route uses (HyperBloom lists unused sources with
\* proportion 0)
RouteSources(r) ==
    SeqToSet(Sources(SelectSeq(AllSteps(r), LAMBDA st : st.part # 0)))

\* the pools of the decoded route
RoutePools(r, e) ==
    IF e.RouteSolver \in PoolAdapters THEN SeqToSet(Pools(AllSteps(r))) ELSE {}

\* the destination amount the response carries, as a raw integer string
DestinationAmount(r, e) ==
    IF e.RouteSolver = "odos" /\ r.absent THEN ""
    ELSE IF e.RouteSolver = "balancer_sor"
           /\ convertFromDecimalAmount(r.amount, e.TokenOutDecimals).ok
      THEN convertFromDecimalAmount(r.amount, e.TokenOutDecimals).raw
    ELSE r.amount

\* a restricted check has validated the decoded response resp
Validated == resp.kind = "response" /\ resp.parse

----------------------------------------------------------------------------
(* Claims about the adapters (SpecHandlers) *)

\* C1: after a restricted check that ends "up", every liquidity source of
\* the decoded route is exactly the adapter's required source; a route with
\* any other source ends "down" with a Message naming that source.
C1_OnlyRequiredSource ==
    (Validated /\ ep.RouteSolver \in SourceAdapters) =>
        /\ ep.LastStatus = "up" =>
             \A src \in RouteSources(resp) : src = RequiredSource(ep)
        /\ (\E src \in RouteSources(resp) : src # RequiredSource(ep)) =>
             /\ ep.LastStatus = "down"
             /\ ep.Message.s \in RouteSources(resp) \ {RequiredSource(ep)}

\* C2: a restricted check ends "up" only if ExpectedPool is among the pools
\* of the decoded route; when it is absent the check ends "down" with a
\* Message containing the expected pool address.
C2_ExpectedPoolInRoute ==
    Validated =>
        /\ ep.LastStatus = "up" => ep.ExpectedPool \in RoutePools(resp, ep)
        /\ (~resp.absent /\ resp.apiErr = ""
            /\ ep.ExpectedPool \notin RoutePools(resp, ep)) =>
             /\ ep.LastStatus = "down"
             /\ ep.Message.s = ep.ExpectedPool

\* C3: after a restricted check that ends "up", ReturnAmount is the
\* destination amount of the response validated in that check, never a
\* value left over from an earlier check.
C3_ReturnAmountIsDestinationAmount ==
    (Validated /\ ep.LastStatus = "up") =>
        ep.ReturnAmount = DestinationAmount(resp, ep)

\* C4: a restricted response whose destination amount is empty or zero
\* never ends "up": the endpoint is marked "down".
C4_EmptyOrZeroAmountIsDown ==
    (Validated /\ DestinationAmount(resp, ep) \in {"", "0"}) =>
        ep.LastStatus = "down"

----------------------------------------------------------------------------
(* Spec: the endpoint store behind collector.mu, the scheduler goroutine    *)
(* (MonitorAPIs), the web handler (CheckEndpointHandler) and the            *)
(* CheckProvider call each of them runs inside UpdateEndpointByName.        *)

AllKeys == {"ZEROX_API_KEY", "INCH_API_KEY", "HYPERBLOOM_API_KEY", "BARTER_API_KEY"}

\* one endpoint per path through CheckProvider
StoreCatalogue ==
    << NewEndpoint("0x-Mainet-Boosted-Stable", "0x", "1", 1),
       NewEndpoint("Paraswap-Mainet-Boosted-Stable", "paraswap", "1", 1),
       NewEndpoint("1inch-Arbitrum-Boosted-GyroE", "1inch", "42161", 1),
       NewEndpoint("1inch-Mainnet-Quant-BTF", "1inch", "1", 1),
       NewEndpoint("1inch-Avax-Boosted-StableSurge", "1inch", "43114", 1),
       NewEndpoint("KyberSwap-Base-reCLAMM", "kyberswap", "8453", 1),
       NewEndpoint("KyberSwap-Plasma-Boosted-StableSurge", "kyberswap", "9745", 1),
       NewEndpoint("OpenOcean-Mainet-Boosted-Stable", "openocean", "1", 1),
       NewEndpoint("Odos-Mainnet-Quant-BTF", "odos", "1", 1) >>

\* the stores SetEndpoints may install: two of the endpoints, in order
Stores ==
    { <<StoreCatalogue[p[1]], StoreCatalogue[p[2]]>> :
        p \in { q \in (1..Len(StoreCatalogue)) \X (1..Len(StoreCatalogue)) :
                  q[1] < q[2] } }

\* what a provider may answer to a request of a check in Spec
StoreReplies(solver) ==
    { [DefaultResp EXCEPT !.kind = "sendfail"],
      [DefaultResp EXCEPT !.parse = FALSE] }
    \cup { [DefaultResp EXCEPT !.route = <<st>>, !.amount = am,
                                !.tokens = IF st.pool = "0xpool" THEN 2 ELSE 3] :
             st \in StepsOf(solver), am \in {"", "987654"} }

Known(name) == \E i \in 1..Len(endpoints) : endpoints[i].Name = name

\* a lookup that stops at the first record whatever its name
FirstIndex(name) == 1

\* the index UpdateEndpointByName's loop stops at
IndexOf(name) ==
    CHOOSE i \in 1..Len(endpoints) :
        /\ endpoints[i].Name = name
        /\ \A j \in 1..(i - 1) : endpoints[j].Name # name

Init ==
    /\ endpoints \in Stores
    /\ env \in {AllKeys, {}}
    /\ StoreIdle
    /\ ep = NoEndpoint
    /\ resp = NoResp
    /\ checks = 0
    /\ requests = 0
    /\ oc = NoQuery
    /\ dash = NoRow
    /\ gc = NoClients

\* a lock that is handed out whoever holds it
LockAlwaysGranted(m) == TRUE

\* a lock that is never handed out
LockNeverGranted(m) == FALSE

\* collector.mu.Lock() returns: the mutex is not held
CanLock(m) == m = "free"

\* a range loop that leaves out every other element
SkipIndex(i) == i + 2

\* checkAllEndpoints: the range loop's step to the next element of the copy
NextIndex(i) == i + 1

\* checkAllEndpoints: endpoints := collector.GetEndpointsCopy()
SchedCopy ==
    /\ pc["sched"] = "copy"
    /\ CanLock(mu)
    /\ snapshot' = [i \in 1..Len(endpoints) |-> endpoints[i].Name]
    /\ cycleLog' = <<>>
    /\ idx' = 1
    /\ pc' = [pc EXCEPT !["sched"] = "walk"]
    /\ UNCHANGED <<hvars, ovars, resp, endpoints, mu, env, request, reply, chk,
                   tempEndpoint, inflight, reqLog>>

\* checkAllEndpoints: UpdateEndpointByName takes the lock and calls
\* CheckAPI(endpoint, &CheckOptions{...}) on the endpoint of that name
SchedLock ==
    /\ pc["sched"] = "walk"
    /\ idx <= Len(snapshot)
    /\ CanLock(mu)
    /\ Known(snapshot[idx])
    /\ mu' = "sched"
    /\ chk' = [NoCheck EXCEPT !.owner = "sched", !.i = IndexOf(snapshot[idx]),
                              !.nilOptions = FALSE, !.phase = "start",
                              !.before = endpoints[IndexOf(snapshot[idx])]]
    /\ pc' = [pc EXCEPT !["sched"] = "check"]
    /\ UNCHANGED <<hvars, ovars, cycleLog, resp, endpoints, env, snapshot, idx, request, reply,
                   tempEndpoint, inflight, reqLog>>

\* MonitorAPIs: the walk is over, the ticker starts the next one
SchedNextCycle ==
    /\ pc["sched"] = "walk"
    /\ idx > Len(snapshot)
    /\ pc' = [pc EXCEPT !["sched"] = "copy"]
    /\ UNCHANGED <<hvars, ovars, cycleLog, resp, endpoints, mu, env, snapshot, idx, request,
                   reply, chk, tempEndpoint, inflight, reqLog>>

\* a handler that serves every method
AnyMethodAllowed(method) == TRUE

\* CheckEndpointHandler: r.Method == http.MethodPost
MethodAllowed(method) == method = "POST"

\* CheckEndpointHandler up to UpdateEndpointByName: 405 unless POST
WebServe ==
    /\ pc["web"] = "idle"
    /\ \E method \in {"GET", "POST"},
          name \in {endpoints[i].Name : i \in 1..Len(endpoints)} \cup {"missing"} :
         /\ request' = [method |-> method, name |-> name]
         /\ IF ~MethodAllowed(method)
              THEN reply' = 405 /\ pc' = pc
              ELSE reply' = 0 /\ pc' = [pc EXCEPT !["web"] = "update"]
    /\ UNCHANGED <<hvars, ovars, cycleLog, resp, endpoints, mu, env, snapshot, idx, chk,
                   tempEndpoint, inflight, reqLog>>

\* CheckEndpointHandler: UpdateEndpointByName takes the lock; it runs
\* monitor.CheckAPI(endpoint, nil) on the endpoint of that name, or finds
\* none and the handler answers 404
WebLock ==
    /\ pc["web"] = "update"
    /\ CanLock(mu)
    /\ IF Known(request.name)
         THEN /\ mu' = "web"
              /\ chk' = [NoCheck EXCEPT !.owner = "web", !.i = IndexOf(request.name),
                                        !.nilOptions = TRUE, !.phase = "start",
                                        !.before = endpoints[IndexOf(request.name)]]
              /\ pc' = [pc EXCEPT !["web"] = "check"]
              /\ reply' = reply
         ELSE /\ reply' = 404
              /\ pc' = [pc EXCEPT !["web"] = "idle"]
              /\ UNCHANGED <<mu, chk>>
    /\ UNCHANGED <<hvars, ovars, cycleLog, resp, endpoints, env, snapshot, idx, request,
                   tempEndpoint, inflight, reqLog>>

\* CheckProvider from its entry to the restricted request being sent, or to
\* the end of the restricted sub-check when none is sent
CheckProviderBegin ==
    /\ chk.phase = "start"
    /\ LET e == endpoints[chk.i]
           st == checkWithGenericClient(e, TRUE, env)
       IN
       IF e.RouteSolver \notin Registered
         THEN /\ endpoints' = [endpoints EXCEPT ![chk.i] = MarkUnsupported(e)]
              /\ chk' = [chk EXCEPT !.phase = "done"]
              /\ UNCHANGED <<inflight, reqLog>>
         ELSE /\ endpoints' = [endpoints EXCEPT ![chk.i] = st.ep]
              /\ IF st.sent
                   THEN /\ inflight' = "restricted"
                        /\ reqLog' = Append(reqLog, "restricted")
                        /\ chk' = [chk EXCEPT !.phase = "restrictedWait",
                                              !.sub = "restricted"]
                   ELSE /\ chk' = [chk EXCEPT !.phase = AfterRestricted(chk.nilOptions),
                                              !.sub = "restricted"]
                        /\ UNCHANGED <<inflight, reqLog>>
    /\ UNCHANGED <<hvars, ovars, cycleLog, resp, mu, env, pc, snapshot, idx, request, reply,
                   tempEndpoint>>

\* the restricted request returns: CheckAPI validates and writes the result
RestrictedRecv ==
    /\ chk.phase = "restrictedWait"
    /\ \E r \in StoreReplies(endpoints[chk.i].RouteSolver) :
         /\ endpoints' = [endpoints EXCEPT ![chk.i] = CheckAPIFinish(@, r)]
         /\ resp' = r
    /\ inflight' = "none"
    /\ reqLog' = Append(reqLog, "restricted.done")
    /\ chk' = [chk EXCEPT !.phase = AfterRestricted(chk.nilOptions)]
    /\ UNCHANGED <<hvars, ovars, cycleLog, mu, env, pc, snapshot, idx, request, reply, tempEndpoint>>

\* after time.Sleep: checkWithGenericClientForMarketPrice up to the
\* market-price request being sent on the scratch copy
MarketBegin ==
    /\ chk.phase = "sleep"
    /\ LET e == endpoints[chk.i]
           st == checkWithGenericClientForMarketPrice(e, env)
       IN
       /\ endpoints' = [endpoints EXCEPT ![chk.i] = st.ep]
       /\ tempEndpoint' = st.temp
       /\ chk' = [chk EXCEPT !.phase = IF st.sent THEN "marketWait" ELSE "done",
                             !.sub = "market", !.mid = e]
       /\ IF st.sent
            THEN inflight' = "market" /\ reqLog' = Append(reqLog, "market")
            ELSE UNCHANGED <<inflight, reqLog>>
    /\ resp' = NoResp
    /\ UNCHANGED <<hvars, ovars, cycleLog, mu, env, pc, snapshot, idx, request, reply>>

\* the market-price request returns: the scratch copy is validated and its
\* MarketPrice stored in the endpoint
MarketRecv ==
    /\ chk.phase = "marketWait"
    /\ \E r \in StoreReplies(endpoints[chk.i].RouteSolver) :
         /\ tempEndpoint' = CheckAPIForMarketPriceFinish(tempEndpoint, r)
         /\ endpoints' = [endpoints EXCEPT ![chk.i] =
                            StoreMarketPrice(@, CheckAPIForMarketPriceFinish(tempEndpoint, r))]
         /\ resp' = r
    /\ inflight' = "none"
    /\ reqLog' = Append(reqLog, "market.done")
    /\ chk' = [chk EXCEPT !.phase = "done"]
    /\ UNCHANGED <<hvars, ovars, cycleLog, mu, env, pc, snapshot, idx, request, reply>>

\* checkAllEndpoints: UpdateEndpointByName returns and releases the lock;
\* time.Sleep(endpoint.Delay), then the next endpoint of the copy
SchedUnlock ==
    /\ chk.phase = "done"
    /\ chk.owner = "sched"
    /\ mu' = "free"
    /\ chk' = NoCheck
    /\ tempEndpoint' = NoEndpoint
    /\ resp' = NoResp
    /\ reqLog' = <<>>
    /\ cycleLog' = Append(cycleLog, endpoints[chk.i].Name)
    /\ idx' = NextIndex(idx)
    /\ pc' = [pc EXCEPT !["sched"] = "walk"]
    /\ UNCHANGED <<hvars, ovars, endpoints, env, snapshot, request, reply, inflight>>

\* CheckEndpointHandler: UpdateEndpointByName returns true and releases the
\* lock; the handler redirects to the dashboard
WebUnlock ==
    /\ chk.phase = "done"
    /\ chk.owner = "web"
    /\ mu' = "free"
    /\ chk' = NoCheck
    /\ tempEndpoint' = NoEndpoint
    /\ resp' = NoResp
    /\ reqLog' = <<>>
    /\ reply' = 303
    /\ pc' = [pc EXCEPT !["web"] = "idle"]
    /\ UNCHANGED <<hvars, ovars, cycleLog, endpoints, env, snapshot, idx, request, inflight>>

Next ==
    \/ SchedCopy
    \/ SchedLock
    \/ SchedNextCycle
    \/ WebServe
    \/ WebLock
    \/ CheckProviderBegin
    \/ RestrictedRecv
    \/ MarketBegin
    \/ MarketRecv
    \/ SchedUnlock
    \/ WebUnlock

Spec == Init /\ [][Next]_vars

----------------------------------------------------------------------------
(* Claims about the store, the scheduler and CheckProvider (Spec) *)

\* the endpoint the running CheckProvider call works on
Cur == endpoints[chk.i]

Checking == chk.phase # "none"

\* the known-unsupported table: 1inch with a GyroE or Quant name or on
\* network 43114, Odos with a Quant name
KnownUnsupported(e) ==
    \/ /\ e.RouteSolver = "1inch"
       /\ (Contains(e.Name, "GyroE") \/ Contains(e.Name, "Quant") \/ e.Network = "43114")
    \/ /\ e.RouteSolver = "odos"
       /\ Contains(e.Name, "Quant")

KeyAvailable(e) ==
    APIKeyEnvVar(e.RouteSolver) = "" \/ APIKeyEnvVar(e.RouteSolver) \in env

\* registered, not in the known-unsupported table, key available
Eligible(e) ==
    /\ e.RouteSolver \in {"0x", "paraswap", "1inch", "hyperbloom", "kyberswap",
                          "odos", "balancer_sor", "barter"}
    /\ ~KnownUnsupported(e)
    /\ KeyAvailable(e)

\* the request of either sub-check can be built
Buildable(e) ==
    /\ BuildURL(e, TRUE) = NoErr /\ BuildURL(e, FALSE) = NoErr
    /\ UsePOST(e.RouteSolver) =>
         BuildRequestBody(e, TRUE) = NoErr /\ BuildRequestBody(e, FALSE) = NoErr

IsPrefix(s, t) == Len(s) <= Len(t) /\ \A k \in 1..Len(s) : s[k] = t[k]

BothSubChecks == <<"restricted", "restricted.done", "market", "market.done">>

\* C5: no outbound request is in flight while the store's lock is held.
C5_NoRequestUnderLock == inflight # "none" => mu = "free"

C7_MarketPriceFrame ==
    (Checking /\ chk.sub = "market") =>
        /\ Cur = [chk.mid EXCEPT !.MarketPrice = Cur.MarketPrice]
        /\ (chk.phase = "done" /\ resp.kind = "sendfail") =>
             Cur.MarketPrice = chk.mid.MarketPrice
        /\ (chk.phase = "done" /\ resp.kind = "response" /\ ~resp.parse) =>
             Cur.MarketPrice = chk.mid.MarketPrice
        /\ (chk.phase = "done" /\ resp.kind = "response" /\ resp.parse
            /\ resp.amount # "") =>
             Cur.MarketPrice = resp.amount

C7_Witness ==
    /\ chk.phase = "done" /\ chk.sub = "market"
    /\ resp.kind = "response" /\ ~resp.parse
    /\ chk.mid.LastStatus = "up" /\ Cur.LastStatus = "up"
    /\ Cur.ReturnAmount = "987654"

\* C8: every scheduled check of a registered, non-excluded endpoint performs
\* both sub-checks, restricted then market-price.
C8_ScheduledCheckDoesBoth ==
    (chk.phase = "done" /\ chk.owner = "sched"
     /\ Eligible(chk.before) /\ Buildable(chk.before)) =>
        reqLog = BothSubChecks

\* C9: CheckProvider on an endpoint whose RouteSolver has no registered
\* adapter sets LastStatus to "unsupported", sends no request and leaves
\* ReturnAmount and MarketPrice unchanged.
C9_UnregisteredIsUnsupported ==
    (Checking /\ chk.before.RouteSolver
                   \notin {"0x", "paraswap", "1inch", "hyperbloom", "kyberswap",
                           "odos", "balancer_sor", "barter"}) =>
        /\ inflight = "none"
        /\ reqLog = <<>>
        /\ chk.phase = "done" =>
             /\ Cur.LastStatus = "unsupported"
             /\ Cur.ReturnAmount = chk.before.ReturnAmount
             /\ Cur.MarketPrice = chk.before.MarketPrice

C9_Witness ==
    /\ chk.phase = "done"
    /\ chk.before.RouteSolver = "openocean"
    /\ Cur.LastStatus = "unsupported"
    /\ chk.before.LastStatus = "unknown"

\* C10: for an endpoint of the known-unsupported table CheckProvider ends
\* with LastStatus "info" and a non-empty Message, and sends no request in
\* either sub-check.
C10_KnownUnsupportedIsInfo ==
    (Checking /\ KnownUnsupported(chk.before)) =>
        /\ inflight = "none"
        /\ reqLog = <<>>
        /\ chk.phase \in {"sleep", "done"} =>
             /\ Cur.LastStatus = "info"
             /\ Cur.Message.kind # ""

C10_Witness ==
    /\ chk.phase = "done" /\ chk.sub = "market"
    /\ KnownUnsupported(chk.before)
    /\ chk.before.Network = "43114"
    /\ Cur.LastStatus = "info"
    /\ reqLog = <<>>

\* the adapter of e requires an API key and its variable is not set
KeyMissing(e) ==
    /\ APIKeyEnvVar(e.RouteSolver) # ""
    /\ APIKeyEnvVar(e.RouteSolver) \notin env

\* C11 as stated: when the adapter requires an API key and the key's
\* variable is empty, CheckProvider ends with LastStatus "error" and no
\* request is sent in any sub-check.
C11_MissingKeyIsError ==
    (Checking /\ KeyMissing(chk.before)) =>
        /\ inflight = "none"
        /\ reqLog = <<>>
        /\ chk.phase \in {"sleep", "done"} => Cur.LastStatus = "error"

\* C11 amended: the same for an endpoint outside the known-unsupported
\* table; an endpoint of the table ends "info" whether or not the key is
\* set, because the table is consulted before the key.  In both cases no
\* request is sent.
C11_MissingKeyIsErrorUnlessWIP ==
    (Checking /\ KeyMissing(chk.before)) =>
        /\ inflight = "none"
        /\ reqLog = <<>>
        /\ (chk.phase \in {"sleep", "done"} /\ ~KnownUnsupported(chk.before)) =>
             /\ Cur.LastStatus = "error"
             /\ Cur.Message = M("%s environment variable not set",
                                APIKeyEnvVar(chk.before.RouteSolver), 0, 0)
        /\ (chk.phase \in {"sleep", "done"} /\ KnownUnsupported(chk.before)) =>
             Cur.LastStatus = "info"

C11_Witness ==
    /\ chk.phase = "done" /\ chk.sub = "market"
    /\ chk.before.RouteSolver = "0x"
    /\ KeyMissing(chk.before)
    /\ Cur.LastStatus = "error"
    /\ reqLog = <<>>

\* the adapter of e has a network table without the endpoint's network, or
\* (KyberSwap) no source for the pool type in the endpoint's name
Unmapped(e) ==
    \/ /\ NetworkTable(e.RouteSolver) # {}
       /\ e.Network \notin NetworkTable(e.RouteSolver)
    \/ /\ e.RouteSolver = "kyberswap"
       /\ KyberExpectedSource(e.Name) = ""

\* C12: an endpoint whose network id or pool type its adapter has no mapping
\* for is marked "error" and no request is sent, in the restricted and in
\* the unrestricted sub-check alike.
C12_UnmappedIsConfigError ==
    (Checking /\ Eligible(chk.before) /\ Unmapped(chk.before)) =>
        /\ inflight = "none"
        /\ reqLog = <<>>
        /\ chk.phase \in {"sleep", "done"} => Cur.LastStatus = "error"

----------------------------------------------------------------------------
(* Claims about the generic client (SpecHandlers) *)

C14_AtMostOneRequest == requests <= 1

----------------------------------------------------------------------------
(* SpecOnChain: providers.QueryOnChainPrice applied to one endpoint with a  *)
(* stored swap path, followed to the return of its eth_call.                *)

\* routerAddresses[network] ("" when the map has no entry)
routerAddressesOrMainnet(network) == "0xAE563E3f8219521950555F5962419C8919758Ea2"

routerAddresses(network) ==
    CASE network = "1"     -> "0xAE563E3f8219521950555F5962419C8919758Ea2"
      [] network = "42161" -> "0xEAedc32a51c510d35ebC11088fD5fF2b47aACF2E"
      [] network = "10"    -> "0xe2fa4e1d17725e72dcdAfe943Ecf45dF4B9E285b"
      [] network = "8453"  -> "0x3f170631ed9821Ca51A59D996aB095162438DC10"
      [] network = "43114" -> "0xF39CA6ede9BF7820a952b52f3c94af526bAB9015"
      [] network = "100"   -> "0x4eff2d77D9fFbAeFB4b141A3e494c085b3FF4Cb5"
      [] network = "999"   -> "0xA8920455934Da4D853faac1f94Fe7bEf72943eF1"
      [] network = "9745"  -> "0x9dA18982a33FD0c7051B19F0d7C76F2d5E7e017c"
      [] OTHER             -> ""

\* batchRouterAddresses[network] ("" when the map has no entry)
batchRouterAddresses(network) ==
    CASE network = "1"     -> "0x136f1EFcC3f8f88516B9E94110D56FDBfB1778d1"
      [] network = "42161" -> "0xaD89051bEd8d96f045E8912aE1672c6C0bF8a85E"
      [] network = "10"    -> "0xaD89051bEd8d96f045E8912aE1672c6C0bF8a85E"
      [] network = "8453"  -> "0x85a80afee867aDf27B50BdB7b76DA70f1E853062"
      [] network = "43114" -> "0xc9b36096f5201ea332Db35d6D195774ea0D5988f"
      [] network = "100"   -> "0xe2fa4e1d17725e72dcdAfe943Ecf45dF4B9E285b"
      [] network = "999"   -> "0x9dd5Db2d38b50bEF682cE532bCca5DfD203915E1"
      [] network = "9745"  -> "0x85a80afee867aDf27B50BdB7b76DA70f1E853062"
      [] OTHER             -> ""

\* config.GetRPCURL: the RPC URL configured for the network, "" when none
GetRPCURL(network, configured) ==
    IF network \in configured THEN "https://rpc/" \o network ELSE ""

\* new(big.Int).SetString(s, 10) on the amounts used below
ParseBigInt(s) ==
    CASE s = "1000000" -> [ok |-> TRUE, val |-> 1000000]
      [] s = "0100"    -> [ok |-> TRUE, val |-> 100]
      [] OTHER         -> [ok |-> FALSE, val |-> 0]

NoCall == [contract |-> "", to |-> "", method |-> "", args |-> <<>>]

QueryResult(call, err) == [call |-> call, err |-> err]

\* queryMultiPathSwap up to client.CallContract
queryMultiPathSwap(e, dial) ==
    LET n == Len(e.SwapPathPools)
        steps == [i \in 1..n |-> [ Pool |-> e.SwapPathPools[i],
                                   TokenOut |-> e.SwapPathTokenOut[i],
                                   IsBuffer |-> e.SwapPathIsBuffer[i] ]]
        path == [ TokenIn |-> e.TokenIn, Steps |-> steps,
                  ExactAmountIn |-> ParseBigInt(e.SwapAmount).val,
                  MinAmountOut |-> 0 ]
    IN
    IF batchRouterAddresses(e.Network) = ""
      THEN QueryResult(NoCall, "no BatchRouter address known for network %s")
    ELSE IF n # Len(e.SwapPathTokenOut)
      THEN QueryResult(NoCall, "path pools length (%d) does not match tokenOut length (%d)")
    ELSE IF n # Len(e.SwapPathIsBuffer)
      THEN QueryResult(NoCall, "path pools length (%d) does not match isBuffer length (%d)")
    ELSE IF ~ParseBigInt(e.SwapAmount).ok
      THEN QueryResult(NoCall, "invalid swap amount: %s")
    ELSE IF ~dial
      THEN QueryResult(NoCall, "failed to connect to RPC: %w")
    ELSE QueryResult([ contract |-> "BatchRouter",
                       to |-> batchRouterAddresses(e.Network),
                       method |-> "querySwapExactIn",
                       args |-> << <<path>> >> ], "")

\* a single-pool query sent through the BatchRouter
querySinglePoolSwapViaBatch(e, dial) == queryMultiPathSwap(e, dial)

\* querySinglePoolSwap up to client.CallContract
querySinglePoolSwap(e, dial) ==
    IF routerAddresses(e.Network) = ""
      THEN QueryResult(NoCall, "no Router address known for network %s")
    ELSE IF ~ParseBigInt(e.SwapAmount).ok
      THEN QueryResult(NoCall, "invalid swap amount: %s")
    ELSE IF ~dial
      THEN QueryResult(NoCall, "failed to connect to RPC: %w")
    ELSE QueryResult([ contract |-> "Router",
                       to |-> routerAddresses(e.Network),
                       method |-> "querySwapSingleTokenExactIn",
                       args |-> << e.SwapPathPools[1], e.TokenIn, e.TokenOut,
                                   ParseBigInt(e.SwapAmount).val >> ], "")

\* QueryOnChainPrice up to client.CallContract: the call it makes, or the
\* error it returns without one
QueryOnChainPrice(e, configured, dial) ==
    IF GetRPCURL(e.Network, configured) = ""
      THEN QueryResult(NoCall, "no RPC URL configured for network %s")
    ELSE IF Len(e.SwapPathPools) = 0
      THEN QueryResult(NoCall, "no path information available for endpoint %s")
    ELSE IF Len(e.SwapPathPools) = 1
      THEN querySinglePoolSwap(e, dial)
    ELSE queryMultiPathSwap(e, dial)

\* what the node may answer to an eth_call: an error, bytes that do not
\* decode, or the decoded return values
RPCReplies(contract) ==
    { [kind |-> "rpcfail", amounts |-> <<>>],
      [kind |-> "undecodable", amounts |-> <<>>] }
    \cup IF contract = "Router"
           THEN { [kind |-> "ok", amounts |-> <<a>>] : a \in {0, 5} }
           ELSE { [kind |-> "ok", amounts |-> as] :
                    as \in SeqsUpTo({7, 9}, MaxAmountsOut) }

\* querySinglePoolSwap / queryMultiPathSwap from the return of
\* client.CallContract: [amount, err]
QueryReturn(call, answer) ==
    IF answer.kind = "rpcfail" THEN [amount |-> "", err |-> "eth_call failed: %w"]
    ELSE IF answer.kind = "undecodable"
      THEN [amount |-> "", err |-> "ABI decoding failed: %w"]
    ELSE IF call.contract = "Router"
      THEN [amount |-> ToString(answer.amounts[1]), err |-> ""]
    ELSE IF Len(answer.amounts) = 0
      THEN [amount |-> "", err |-> "empty amountsOut array"]
    ELSE [amount |-> ToString(answer.amounts[Len(answer.amounts)]), err |-> ""]

\* endpoints with a swap path as BalancerSORHandler.HandleResponse may have
\* stored it
OnChainEndpoints ==
    { [NewEndpoint("Balancer SOR-Mainet-Boosted-Stable", "balancer_sor", net, 1)
         EXCEPT !.SwapPathPools = pools, !.SwapPathTokenOut = touts,
                !.SwapPathIsBuffer = bufs, !.SwapAmount = amt] :
        net \in {"1", "999", "5"},
        pools \in SeqsUpTo({"0xpool", "0xother"}, MaxPathLen),
        touts \in SeqsUpTo({"0xmid", "0xout"}, MaxPathLen),
        bufs \in SeqsUpTo(BOOLEAN, MaxPathLen),
        amt \in {"1000000", "abc"} }

InitOnChain ==
    /\ ep \in OnChainEndpoints
    /\ \E configured \in {{}, {"1", "5"}, {"1", "999", "5"}}, dial \in BOOLEAN :
         oc = [NoQuery EXCEPT !.phase = "idle", !.rpc = configured, !.dial = dial]
    /\ dash = NoRow
    /\ gc = NoClients
    /\ resp = NoResp
    /\ checks = 0
    /\ requests = 0
    /\ endpoints = <<>>
    /\ env = {}
    /\ StoreIdle

\* QueryOnChainPrice from its entry to the eth_call, or to its return when
\* it makes none
CallContract ==
    /\ oc.phase = "idle"
    /\ LET q == QueryOnChainPrice(ep, oc.rpc, oc.dial) IN
         oc' = IF q.err # ""
                 THEN [oc EXCEPT !.phase = "returned", !.err = q.err]
                 ELSE [oc EXCEPT !.phase = "called", !.calls = Append(@, q.call)]
    /\ UNCHANGED <<hvars, resp, svars, dash, gc>>

\* the eth_call returns and QueryOnChainPrice decodes and returns
ContractReturns ==
    /\ oc.phase = "called"
    /\ \E answer \in RPCReplies(oc.calls[Len(oc.calls)].contract) :
         /\ oc' = [oc EXCEPT !.phase = "returned",
                             !.amount = QueryReturn(oc.calls[Len(oc.calls)], answer).amount,
                             !.err = QueryReturn(oc.calls[Len(oc.calls)], answer).err]
         /\ resp' = [NoResp EXCEPT !.kind = answer.kind, !.route = answer.amounts]
    /\ UNCHANGED <<hvars, svars, dash, gc>>

NextOnChain == CallContract \/ ContractReturns

SpecOnChain == InitOnChain /\ [][NextOnChain]_vars

----------------------------------------------------------------------------
(* Claims about the on-chain query (SpecOnChain) *)

PathLen == Len(ep.SwapPathPools)

\* QueryOnChainPrice has been entered
Queried == oc.phase \in {"called", "returned"}

\* the networks of the Router / BatchRouter address tables
ContractNetworks == {"1", "42161", "10", "8453", "43114", "100", "999", "9745"}

\* the steps of the stored path, in path order
PathSteps ==
    [i \in 1..PathLen |-> [ Pool |-> ep.SwapPathPools[i],
                            TokenOut |-> ep.SwapPathTokenOut[i],
                            IsBuffer |-> ep.SwapPathIsBuffer[i] ]]

\* RPC URL configured, contract address known, path not empty
Configured ==
    /\ ep.Network \in oc.rpc
    /\ ep.Network \in ContractNetworks
    /\ PathLen >= 1

\* nothing else keeps the call from being made: the swap amount is a
\* decimal integer, an RPC client can be created and, for several pools, the
\* three lists of the path have the same length
Callable ==
    /\ Configured
    /\ ep.SwapAmount = "1000000"
    /\ oc.dial
    /\ PathLen >= 2 =>
         /\ Len(ep.SwapPathTokenOut) = PathLen
         /\ Len(ep.SwapPathIsBuffer) = PathLen

RouterCalled ==
    /\ Len(oc.calls) = 1
    /\ oc.calls[1].contract = "Router"
    /\ oc.calls[1].method = "querySwapSingleTokenExactIn"
    /\ oc.calls[1].args = <<ep.SwapPathPools[1], ep.TokenIn, ep.TokenOut, 1000000>>

BatchRouterCalled ==
    /\ Len(oc.calls) = 1
    /\ oc.calls[1].contract = "BatchRouter"
    /\ oc.calls[1].method = "querySwapExactIn"
    /\ Len(oc.calls[1].args[1]) = 1
    /\ oc.calls[1].args[1][1].TokenIn = ep.TokenIn
    /\ oc.calls[1].args[1][1].Steps = PathSteps
    /\ oc.calls[1].args[1][1].ExactAmountIn = 1000000

C16_NoCallWithoutConfig ==
    Queried =>
        /\ Len(oc.calls) <= 1
        /\ ~Configured =>
             /\ oc.calls = <<>>
             /\ oc.phase = "returned"
             /\ oc.err # "" /\ oc.amount = ""
        /\ (oc.phase = "returned" /\ resp.kind \in {"rpcfail", "undecodable"}) =>
             (Len(oc.calls) = 1 /\ oc.err # "" /\ oc.amount = "")

C16_Witness ==
    /\ oc.phase = "returned"
    /\ ep.Network = "5" /\ "5" \in oc.rpc
    /\ PathLen = 1
    /\ oc.calls = <<>>
    /\ oc.err = "no Router address known for network %s"

----------------------------------------------------------------------------
(* Claims about the scheduler and the check handler (Spec) *)

\* C17: in each cycle the scheduler checks the endpoints of its snapshot
\* once each and in snapshot order, one check finishing before the next
\* starts, and a new cycle starts only when the walk is over.
C17_EachEndpointOncePerCycle ==
    /\ idx \in 1..(Len(snapshot) + 1)
    /\ pc["sched"] \in {"walk", "check"} => cycleLog = SubSeq(snapshot, 1, idx - 1)
    /\ \A i, j \in 1..Len(cycleLog) : i # j => cycleLog[i] # cycleLog[j]
    /\ pc["sched"] = "check" <=> chk.owner = "sched"
    /\ chk.owner = "sched" =>
         /\ idx <= Len(snapshot)
         /\ endpoints[chk.i].Name = snapshot[idx]
         /\ mu = "sched"
    /\ (pc["sched"] = "copy" /\ snapshot # <<>>) =>
         /\ cycleLog = snapshot
         /\ cycleLog = [i \in 1..Len(endpoints) |-> endpoints[i].Name]

C17_Witness ==
    /\ pc["sched"] = "copy"
    /\ Len(snapshot) = 2 /\ cycleLog = snapshot
    /\ \A i \in 1..Len(endpoints) : endpoints[i].LastChecked = "now"

\* a step of the web handler
WebStep ==
    \/ pc'["web"] # pc["web"]
    \/ request' # request
    \/ reply' # reply

StoreUntouched ==
    /\ endpoints' = endpoints
    /\ chk' = chk
    /\ mu' = mu
    /\ inflight' = inflight

\* C19: the check handler answers a non-POST request with 405 and a POST
\* for an unknown name with 404, running no check and leaving the store as it
\* is; a POST for a known name runs one check, of the endpoint of that name,
\* and then redirects (303).
C19_CheckHandlerAnswers ==
    [][/\ (pc["web"] = "idle" /\ WebStep) =>
            /\ StoreUntouched
            /\ request'.method # "POST" => (reply' = 405 /\ pc'["web"] = "idle")
            /\ request'.method = "POST" => (reply' = 0 /\ pc'["web"] = "update")
       /\ (pc["web"] = "update" /\ WebStep) =>
            /\ endpoints' = endpoints
            /\ ~Known(request.name) =>
                 (reply' = 404 /\ pc'["web"] = "idle" /\ StoreUntouched)
            /\ Known(request.name) =>
                 /\ pc'["web"] = "check"
                 /\ chk'.owner = "web" /\ chk'.phase = "start"
                 /\ endpoints[chk'.i].Name = request.name
       /\ (pc["web"] = "check" /\ WebStep) =>
            /\ chk.owner = "web" /\ chk.phase = "done"
            /\ endpoints[chk.i].Name = request.name
            /\ endpoints[chk.i].LastStatus # "unknown"
            /\ reply' = 303 /\ pc'["web"] = "idle"
       /\ (chk'.owner = "web" /\ chk.owner # "web") => pc["web"] = "update"
       /\ reply' # reply => reply' \in {0, 303, 404, 405}]_vars

C19_Witness ==
    /\ reply = 303 /\ request.method = "POST"
    /\ \E i \in 1..Len(endpoints) :
         /\ endpoints[i].Name = request.name
         /\ endpoints[i].LastStatus # "unknown"
         /\ \A j \in 1..Len(endpoints) : j # i => endpoints[j].LastStatus = "unknown"

\* C20: the LastStatus of every endpoint, and of the scratch copy of the
\* market-price sub-check, is one of unknown, up, down, error, info,
\* unsupported.
C20_StatusValues ==
    /\ \A i \in 1..Len(endpoints) :
         endpoints[i].LastStatus
             \in {"unknown", "up", "down", "error", "info", "unsupported"}
    /\ tempEndpoint.LastStatus
         \in {"unknown", "up", "down", "error", "info", "unsupported"}

C20_Witness ==
    /\ Len(endpoints) = 2
    /\ endpoints[1].LastStatus = "info"
    /\ endpoints[2].LastStatus = "unsupported"
    /\ tempEndpoint.LastStatus = "unknown"

----------------------------------------------------------------------------
(* SpecFair: Spec with the scheduling the program runs under.              *)
(* MonitorAPIs is a goroutine of its own and its ticker keeps firing, so   *)
(* every step of the scheduler that stays possible is taken.  A request of *)
(* the generic client ends within its 30 s timeout, with a reply or a send *)
(* failure, so a running check goes on to its end and its caller unlocks.  *)
(* sync.Mutex hands the lock to a goroutine that has waited for more than  *)
(* 1 ms, so the scheduler gets the lock although a web request may hold it *)
(* again and again, and so does a web handler that waits for it.  A       *)
(* request reaches the web handler only when a user sends one: no fairness *)
(* on WebServe.                                                            *)

Fairness ==
    /\ SF_vars(SchedCopy)
    /\ SF_vars(SchedLock)
    /\ WF_vars(SchedNextCycle)
    /\ WF_vars(SchedUnlock)
    /\ WF_vars(CheckProviderBegin)
    /\ WF_vars(RestrictedRecv)
    /\ WF_vars(MarketBegin)
    /\ WF_vars(MarketRecv)
    /\ WF_vars(WebUnlock)
    /\ SF_vars(WebLock)

\* the stores of SpecFair, which runs with no API key in the environment:
\* two, in either order, of a 0x endpoint (error, its key is missing), a
\* known-unsupported 1inch endpoint (info), a Paraswap endpoint (up or down,
\* no key) and an endpoint of an unregistered solver (unsupported)
FairStores ==
    LET F == { StoreCatalogue[i] : i \in
                 { k \in 1..Len(StoreCatalogue) :
                     StoreCatalogue[k].Name \in {"0x-Mainet-Boosted-Stable",
                                                 "Paraswap-Mainet-Boosted-Stable",
                                                 "1inch-Arbitrum-Boosted-GyroE",
                                                 "OpenOcean-Mainet-Boosted-Stable"} } }
    IN  { <<q[1], q[2]>> : q \in { r \in F \X F : r[1].Name # r[2].Name } }

InitFair ==
    /\ endpoints \in FairStores
    /\ env = {}
    /\ StoreIdle
    /\ ep = NoEndpoint
    /\ resp = NoResp
    /\ checks = 0
    /\ requests = 0
    /\ oc = NoQuery
    /\ dash = NoRow
    /\ gc = NoClients

SpecFair == InitFair /\ [][Next]_vars /\ Fairness

\* the scheduler's check of the k-th endpoint of the snapshot has ended in
\* a failure
FailedAt(k) ==
    /\ chk.owner = "sched"
    /\ chk.phase = "done"
    /\ idx = k
    /\ endpoints[chk.i].LastStatus \in {"down", "error", "info", "unsupported"}

\* the walk of this cycle has checked every endpoint of the snapshot
WalkOver ==
    /\ pc["sched"] = "walk"
    /\ idx > Len(snapshot)
    /\ cycleLog = snapshot

\* a cycle has started its first check
CycleStarted ==
    /\ chk.owner = "sched"
    /\ idx = 1
    /\ cycleLog = <<>>

\* C18: after a scheduler check that ended down, error, info or
\* unsupported, the scheduler goes on to check the next endpoint, the walk
\* of that cycle comes to its end with every endpoint checked, and the next
\* cycle starts.
C18_FailureDoesNotStopWalk ==
    /\ FailedAt(1) ~> (chk.owner = "sched" /\ idx = 2)
    /\ FailedAt(1) ~> WalkOver
    /\ FailedAt(2) ~> WalkOver
    /\ FailedAt(1) ~> CycleStarted
    /\ FailedAt(2) ~> CycleStarted

C18_Witness ==
    /\ WalkOver
    /\ Len(snapshot) = 2
    /\ endpoints[1].LastStatus \in {"down", "error", "info", "unsupported"}
    /\ endpoints[2].LastStatus = "up"

----------------------------------------------------------------------------
(* Claims about the stored amounts and the store's frame *)

\* the strings of the amount alphabets that are base-10 integers: the
\* amounts providers send and the results of convertFromDecimalAmount
IntegerStrings == {"0", "987", "1500", "987654", "987654000"}

\* an amount field is empty or a base-10 integer string
RawAmount(s) == s = "" \/ s \in IntegerStrings

\* C21: ReturnAmount and MarketPrice of the endpoint are empty or a base-10
\* integer string, whatever the provider returned.
C21_AmountsAreIntegerStrings ==
    /\ RawAmount(ep.ReturnAmount)
    /\ RawAmount(ep.MarketPrice)

\* the identity and configuration fields of an endpoint record
IdentityOf(e) ==
    << e.Name, e.RouteSolver, e.Network, e.TokenIn, e.TokenOut,
       e.TokenOutDecimals, e.SwapAmount, e.ExpectedPool, e.ExpectedNoHops >>

\* the name the running UpdateEndpointByName call was given
CheckedName == IF chk.owner = "web" THEN request.name ELSE snapshot[idx]

\* C22: the store keeps its length and its names; a step changes a record
\* only while a check runs for the endpoint of that name, and never changes
\* a record's identity and configuration fields.
C22_StoreFrame ==
    [][/\ Len(endpoints') = Len(endpoints)
       /\ \A i \in 1..Len(endpoints) :
            /\ IdentityOf(endpoints'[i]) = IdentityOf(endpoints[i])
            /\ endpoints'[i] # endpoints[i] =>
                 /\ chk.owner # ""
                 /\ endpoints[i].Name = CheckedName]_vars

C22_Witness ==
    /\ chk.phase = "none"
    /\ Len(endpoints) = 2
    /\ endpoints[2].LastStatus = "up"
    /\ endpoints[2].ReturnAmount # ""
    /\ endpoints[2].MarketPrice # ""
    /\ endpoints[1] \in SeqToSet(StoreCatalogue)

\* C23: a check answered with the same bytes as the check before it, on the
\* same record, ends with the same LastStatus and the same ReturnAmount.
C23_RevalidationIsIdempotent ==
    [][(resp.kind = "response" /\ resp' = resp /\ checks' = MaxChecks + 1) =>
           /\ ep'.LastStatus = ep.LastStatus
           /\ ep'.ReturnAmount = ep.ReturnAmount]_vars

C23_Witness ==
    /\ checks = MaxChecks + 1
    /\ resp.kind = "response"
    /\ ep.LastStatus = "up"
    /\ ep.ReturnAmount = DestinationAmount(resp, ep)
    /\ ep.ReturnAmount # ""

----------------------------------------------------------------------------
(* SpecDashboard: DashboardHandler renders one solver row, for every pair   *)
(* of ReturnAmount and MarketPrice strings of a bounded alphabet.           *)

\* amount strings a row may hold: empty, the "N/A" placeholder, integers,
\* a negative integer, a decimal and a non-numeric string
DashAmounts == {"", "N/A", "0", "9", "10", "100", "150", "-5", "1.5", "abc"}

\* the rank of the string in lexical (byte) order
LexRank(s) ==
    CASE s = ""    -> [ok |-> TRUE, val |-> 0]
      [] s = "-5"  -> [ok |-> TRUE, val |-> 1]
      [] s = "0"   -> [ok |-> TRUE, val |-> 2]
      [] s = "1.5" -> [ok |-> TRUE, val |-> 3]
      [] s = "10"  -> [ok |-> TRUE, val |-> 4]
      [] s = "100" -> [ok |-> TRUE, val |-> 5]
      [] s = "150" -> [ok |-> TRUE, val |-> 6]
      [] s = "9"   -> [ok |-> TRUE, val |-> 7]
      [] s = "N/A" -> [ok |-> TRUE, val |-> 8]
      [] OTHER     -> [ok |-> TRUE, val |-> 9]

\* new(big.Int).SetString(s, 10) on DashAmounts: an optional sign and
\* decimal digits, nothing else
SetStringBase10(s) ==
    CASE s = "0"   -> [ok |-> TRUE, val |-> 0]
      [] s = "9"   -> [ok |-> TRUE, val |-> 9]
      [] s = "10"  -> [ok |-> TRUE, val |-> 10]
      [] s = "100" -> [ok |-> TRUE, val |-> 100]
      [] s = "150" -> [ok |-> TRUE, val |-> 150]
      [] s = "-5"  -> [ok |-> TRUE, val |-> 0 - 5]
      [] OTHER     -> [ok |-> FALSE, val |-> 0]

\* DashboardHandler: "" and "N/A" become "0", a string SetString rejects
\* becomes 0
AmountBig(s) ==
    LET str == IF s = "" \/ s = "N/A" THEN "0" ELSE s
        big == SetStringBase10(str)
    IN  IF big.ok THEN big.val ELSE 0

\* DashboardHandler: the cell given class 'highest-value' ("" when none)
HighestValue(returnAmount, marketPrice) ==
    LET returnAmountBig == AmountBig(returnAmount)
        marketPriceBig == AmountBig(marketPrice)
    IN  IF returnAmountBig > 0 \/ marketPriceBig > 0
          THEN IF returnAmountBig > marketPriceBig THEN "ReturnAmount"
               ELSE IF marketPriceBig > returnAmountBig THEN "MarketPrice"
               ELSE ""
          ELSE ""

InitDashboard ==
    /\ \E a \in DashAmounts, b \in DashAmounts :
         dash = [ret |-> a, mp |-> b, class |-> "unrendered"]
    /\ ep = NoEndpoint
    /\ resp = NoResp
    /\ checks = 0
    /\ requests = 0
    /\ oc = NoQuery
    /\ gc = NoClients
    /\ endpoints = <<>>
    /\ env = {}
    /\ StoreIdle

\* DashboardHandler writes the row
RenderRow ==
    /\ dash.class = "unrendered"
    /\ dash' = [dash EXCEPT !.class = HighestValue(dash.ret, dash.mp)]
    /\ UNCHANGED <<hvars, resp, oc, gc, svars>>

NextDashboard == RenderRow

SpecDashboard == InitDashboard /\ [][NextDashboard]_vars

\* the integer an amount string denotes; 0 for the empty string, "N/A" and
\* the strings that are not base-10 integers
Denotes(s) ==
    CASE s = "9"   -> 9
      [] s = "10"  -> 10
      [] s = "100" -> 100
      [] s = "150" -> 150
      [] s = "-5"  -> 0 - 5
      [] OTHER     -> 0

Rendered == dash.class \notin {"none", "unrendered"}

----------------------------------------------------------------------------
(* Claims about the validators (SpecHandlers), continued *)

\* the hop count the adapter compares with ExpectedNoHops: 0x counts the
\* route's tokens less one, Barter the swaps of the first route
Hops(r, e) == IF e.RouteSolver = "0x" THEN r.tokens - 1 ELSE Len(r.route)

\* the count the adapter's mismatch message reports
Counted(n, e) == IF e.RouteSolver = "0x" THEN n + 1 ELSE n

\* a decoded restricted response of a hop-counting adapter that passes the
\* checks made before the hop count
PassesSourceChecks ==
    /\ Validated
    /\ ep.RouteSolver \in {"0x", "barter"}
    /\ resp.apiErr = "" /\ ~resp.absent /\ resp.tokens # 0 - 1
    /\ \A i \in 1..Len(AllSteps(resp)) :
         AllSteps(resp)[i].source = RequiredSource(ep)

HopMismatchReported ==
    /\ ep.LastStatus = "down"
    /\ ep.Message.kind \in {"expected %d tokens, got %d", "expected %d swaps, got %d"}
    /\ ep.Message.n = Counted(ep.ExpectedNoHops, ep)
    /\ ep.Message.m = Counted(Hops(resp, ep), ep)

----------------------------------------------------------------------------
(* SpecClients: getClient called once by each of MaxCallers goroutines, at  *)
(* every interleaving of their steps.  gc.clients is the map clients (0: no *)
(* entry), gc.readers / gc.writer the holders of clientsMu, gc.made the URL *)
(* of every client created, in order of creation; a client is named by its  *)
(* position in gc.made.  Of a caller: pc its control point, url its         *)
(* argument, ret the client returned (0: none), err whether it returned an  *)
(* error.                                                                   *)

URLs == {"https://rpc/1", "https://rpc/5"}

Callers == 1..MaxCallers

\* a second lookup that never finds the entry
NoDoubleCheck(cached) == FALSE

\* "Double-check after acquiring write lock": client, exists := clients[rpcURL]
DoubleCheck(cached) == cached # 0

InitClients ==
    /\ gc = [ clients |-> [u \in URLs |-> 0], readers |-> {}, writer |-> 0,
              callers |-> [c \in Callers |->
                             [pc |-> "idle", url |-> "", ret |-> 0, err |-> FALSE]],
              made |-> <<>> ]
    /\ ep = NoEndpoint
    /\ resp = NoResp
    /\ checks = 0
    /\ requests = 0
    /\ oc = NoQuery
    /\ dash = NoRow
    /\ endpoints = <<>>
    /\ env = {}
    /\ StoreIdle

\* getClient(rpcURL) is called and takes the read lock
Enter(c) ==
    /\ gc.callers[c].pc = "idle"
    /\ gc.writer = 0
    /\ \E u \in URLs :
         gc' = [gc EXCEPT !.readers = @ \cup {c},
                          !.callers[c].pc = "lookup",
                          !.callers[c].url = u]

\* the lookup under the read lock, RUnlock, and the return of a cached client
Lookup(c) ==
    /\ gc.callers[c].pc = "lookup"
    /\ LET client == gc.clients[gc.callers[c].url] IN
         gc' = [gc EXCEPT !.readers = @ \ {c},
                          !.callers[c].pc = IF client # 0 THEN "returned" ELSE "lock",
                          !.callers[c].ret = client]

\* clientsMu.Lock()
Lock(c) ==
    /\ gc.callers[c].pc = "lock"
    /\ gc.writer = 0
    /\ gc.readers = {}
    /\ gc' = [gc EXCEPT !.writer = c, !.callers[c].pc = "recheck"]

\* the second lookup under the write lock; a hit returns and unlocks
Recheck(c) ==
    /\ gc.callers[c].pc = "recheck"
    /\ LET client == gc.clients[gc.callers[c].url] IN
         gc' = IF DoubleCheck(client)
                 THEN [gc EXCEPT !.writer = 0,
                                 !.callers[c].pc = "returned",
                                 !.callers[c].ret = client]
                 ELSE [gc EXCEPT !.callers[c].pc = "dial"]

\* rpc.DialHTTPWithClient fails (error returned, nothing stored) or
\* succeeds (the new client is stored and returned); the deferred Unlock
Dial(c) ==
    /\ gc.callers[c].pc = "dial"
    /\ \E ok \in BOOLEAN :
         gc' = IF ok
                 THEN [gc EXCEPT !.made = Append(@, gc.callers[c].url),
                                 !.clients[gc.callers[c].url] = Len(gc.made) + 1,
                                 !.writer = 0,
                                 !.callers[c].pc = "returned",
                                 !.callers[c].ret = Len(gc.made) + 1]
                 ELSE [gc EXCEPT !.writer = 0,
                                 !.callers[c].pc = "returned",
                                 !.callers[c].err = TRUE]

NextClients ==
    /\ \E c \in Callers : Enter(c) \/ Lookup(c) \/ Lock(c) \/ Recheck(c) \/ Dial(c)
    /\ UNCHANGED <<hvars, resp, oc, dash, svars>>

SpecClients == InitClients /\ [][NextClients]_vars

\* C26: at any interleaving of the callers, at most one client is created
\* per URL, the cache holds that client, a caller that returns a client for
\* a URL returns the cached one, and a cached client is never replaced.
C26_OneClientPerURL ==
    [][/\ \A i, j \in 1..Len(gc'.made) : gc'.made[i] = gc'.made[j] => i = j
       /\ \A i \in 1..Len(gc'.made) : gc'.clients[gc'.made[i]] = i
       /\ \A c \in Callers :
            (gc'.callers[c].pc = "returned" /\ ~gc'.callers[c].err) =>
                /\ gc'.callers[c].ret # 0
                /\ gc'.callers[c].ret = gc'.clients[gc'.callers[c].url]
       /\ \A u \in URLs : gc.clients[u] # 0 => gc'.clients[u] = gc.clients[u]]_vars

C26_Witness ==
    /\ Len(gc.made) = 1
    /\ \A c \in Callers :
         /\ gc.callers[c].pc = "returned"
         /\ gc.callers[c].url = gc.made[1]
         /\ gc.callers[c].ret = 1

----------------------------------------------------------------------------
(* Claims about the stored swap path and the validators' frame              *)
(* (SpecHandlers)                                                           *)

\* C27: when the Balancer SOR adapter has stored a swap path on the
\* endpoint, SwapPathPools, SwapPathTokenOut and SwapPathIsBuffer have the
\* same length.
C27_SwapPathAligned ==
    (ep.RouteSolver = "balancer_sor" /\ ep.SwapPathPools # <<>>) =>
        /\ Len(ep.SwapPathTokenOut) = Len(ep.SwapPathPools)
        /\ Len(ep.SwapPathIsBuffer) = Len(ep.SwapPathPools)

\* C30: a restricted validation that rejects the response (the check ends
\* "down") leaves ReturnAmount, SwapPathPools, SwapPathTokenOut and
\* SwapPathIsBuffer as they were before it, for every adapter.
C30_RejectionWritesNoResult ==
    [][(resp.kind = "pending" /\ resp'.kind = "response" /\ ep'.LastStatus = "down") =>
           /\ ep'.ReturnAmount = ep.ReturnAmount
           /\ ep'.SwapPathPools = ep.SwapPathPools
           /\ ep'.SwapPathTokenOut = ep.SwapPathTokenOut
           /\ ep'.SwapPathIsBuffer = ep.SwapPathIsBuffer]_vars

----------------------------------------------------------------------------
(* Claims about the store lock (Spec, SpecFair) *)

C28_LockRequestsGranted ==
    /\ (mu # "free") ~> (mu = "free")
    /\ (pc["sched"] = "copy") ~> (pc["sched"] = "walk")
    /\ (pc["sched"] = "walk" /\ idx <= Len(snapshot)) ~> (pc["sched"] = "check")
    /\ (pc["web"] = "update") ~> (pc["web"] # "update")

C28_Witness ==
    /\ pc["sched"] = "walk"
    /\ idx <= Len(snapshot)
    /\ mu = "web"
    /\ inflight # "none"

====
